---- MODULE Spec2Model ----
(***************************************************************************)
(* Model of the VMM-backed KV-cache engine (vllm/worker/cache_engine_vmm)  *)
(* and of the FlashAttention metadata builder                              *)
(* (vllm/attention/backends/flash_attn).                                   *)
(*                                                                         *)
(* Sizes are in bytes, page indices count blocks of block_bytes_size from  *)
(* the start of a reservation.  The device allocator (vllm._vmm_ops) is a  *)
(* compiled extension; its three calls are modelled from the Page          *)
(* Allocator section of the specification.                                 *)
(***************************************************************************)
EXTENDS Integers, Sequences, FiniteSets, TLC

\* ------------------------------------------------------------------------
\* Bounds of the model
\* ------------------------------------------------------------------------
MaxBlocks == 2     \* largest block count a caller asks alloc_seqs for
MaxEntries == 1    \* most entries in one alloc_seqs dict / free_seqs list
MaxFaults == 1     \* most map requests the driver refuses for lack of memory
MaxGroups == 2     \* most sequence groups in one batch
MaxSeqsPerGroup == 2   \* most sequences in one sequence group
MaxAdvance == 2    \* most advance_step calls that succeed on one metadata

\* ------------------------------------------------------------------------
\* Program constants and the configurations explored
\* ------------------------------------------------------------------------
MB == 1048576

BatchSizes == {1, 2}
ModelLens == {8, 12}
BlockSizes == {8}
LayerCounts == {1, 2}
KvHeadCounts == {128}
HeadSizes == {256}
DtypeSizes == {4}
BlockBytesSizes == {2 * MB, 4 * MB}

Configs ==
    [max_num_seqs : BatchSizes,
     max_model_len : ModelLens,
     block_size : BlockSizes,
     num_layers : LayerCounts,
     num_kv_heads : KvHeadCounts,
     head_size : HeadSizes,
     dtype_size : DtypeSizes,
     block_bytes_size : BlockBytesSizes]

VARIABLES
    cfg,                      \* the configuration handed to __init__
    pc,                       \* "new", "ready" (constructed) or "failed"
    allocated_block_counts,   \* self.allocated_block_counts
    key_cache_ptr,            \* self.gpu_cache_ptr[0], as the driver sees it
    value_cache_ptr,          \* self.gpu_cache_ptr[1], as the driver sees it
    last,                     \* the call made last, its arguments and outcome
    faults,                   \* map requests refused for lack of memory so far
    kv_written,               \* (slot, page) pairs addressed by the last write
    input_builder,            \* the model runner's input to the builder
    phase,                    \* "idle", "prepared", "built", "forwarded",
                              \* "failed" (build raised) or "raised"
    builder,                  \* the FlashAttentionMetadataBuilder's fields
    attn_metadata,            \* what build() returned, None before
    advanced,                 \* advance_step calls that returned since build()
    error                     \* the exception the last call raised, "" if none

engine_vars == <<cfg, pc, allocated_block_counts, key_cache_ptr,
                 value_cache_ptr, last, faults, kv_written>>

meta_vars == <<input_builder, phase, builder, attn_metadata, advanced, error>>

vars == <<cfg, pc, allocated_block_counts, key_cache_ptr, value_cache_ptr,
          last, faults, kv_written, input_builder, phase, builder,
          attn_metadata, advanced, error>>

Max(a, b) == IF a >= b THEN a ELSE b

\* ------------------------------------------------------------------------
\* CacheEngineVMM.__init__: derived sizes
\* ------------------------------------------------------------------------
max_seq_len(c) ==
    IF c.max_model_len % c.block_size # 0
    THEN (c.max_model_len \div c.block_size + 1) * c.block_size
    ELSE c.max_model_len

token_size(c) == c.num_kv_heads * c.head_size

sequence_buffer_size(c) == max_seq_len(c) * token_size(c)

cache_space_size(c) == c.num_layers * sequence_buffer_size(c)

cache_sapce_bytes_size(c) == cache_space_size(c) * c.dtype_size

cache_space_page_num(c) == cache_sapce_bytes_size(c) \div c.block_bytes_size

\* the divisibility assertion left out
ConfigValid_unchecked(c) == TRUE

ConfigValid(c) == cache_sapce_bytes_size(c) % c.block_bytes_size = 0

Slots(c) == 0..(c.max_num_seqs - 1)

\* ------------------------------------------------------------------------
\* Device allocator (vmm.CacheAllocator), from the Page Allocator section
\* ------------------------------------------------------------------------
NoPtr == [live |-> FALSE, reserved |-> 0, mapped |-> {}]

\* pages [offset / P, offset / P + num_blocks) of a reservation
PageRange(c, num_blocks, offset) ==
    {(offset \div c.block_bytes_size) + i : i \in 0..(num_blocks - 1)}

\* reserve(total_pages): refused by the driver when ok is FALSE
reserve_cache_ptr(total_pages, ok) ==
    IF ok
    THEN [status |-> 0,
          ptr |-> [live |-> TRUE, reserved |-> total_pages, mapped |-> {}]]
    ELSE [status |-> 1, ptr |-> NoPtr]

\* map: all of the range or nothing; refused when the range leaves the
\* reservation, when a page of it is already mapped, or when the driver has
\* no memory (oom)
alloc_cache_ptr(c, ptr, num_blocks, offset, oom) ==
    LET pages == PageRange(c, num_blocks, offset)
        fits == pages \subseteq 0..(ptr.reserved - 1)
        fresh == pages \cap ptr.mapped = {}
    IN IF fits /\ fresh /\ ~oom
       THEN [status |-> 0, ptr |-> [ptr EXCEPT !.mapped = @ \cup pages],
             conflict |-> {}]
       ELSE [status |-> 1, ptr |-> ptr, conflict |-> pages \cap ptr.mapped]

\* unmap: all of the range or nothing; refused when a page of it is not mapped
release_cache_ptr(c, ptr, num_blocks, offset) ==
    LET pages == PageRange(c, num_blocks, offset)
    IN IF pages \subseteq ptr.mapped
       THEN [status |-> 0, ptr |-> [ptr EXCEPT !.mapped = @ \ pages]]
       ELSE [status |-> 1, ptr |-> ptr]

\* ------------------------------------------------------------------------
\* CacheEngineVMM: the engine as a value, so that the loops can be folded
\*   abc : allocated_block_counts, key / value : the two reservations,
\*   remap : (reservation, page) pairs asked to be mapped while mapped
\* ------------------------------------------------------------------------
Engine(abc, key, value) ==
    [abc |-> abc, key |-> key, value |-> value, remap |-> {}]

\* alloc_one_seq mapping the key reservation only
alloc_one_seq_key_only(c, e, buffer_id, num_blocks, offset, oom) ==
    LET r1 == alloc_cache_ptr(c, e.key, num_blocks, offset, oom.k)
        e1 == [e EXCEPT !.key = r1.ptr,
                        !.remap = @ \cup ({"key"} \X r1.conflict)]
    IN IF r1.status # 0
       THEN [eng |-> e1, raised |-> TRUE, status |-> <<r1.status, 0>>]
       ELSE [eng |-> [e1 EXCEPT !.abc[buffer_id] = @ + num_blocks],
             raised |-> FALSE, status |-> <<r1.status, 0>>]

\* alloc_one_seq counting the blocks before it looks at the statuses
alloc_one_seq_count_first(c, e, buffer_id, num_blocks, offset, oom) ==
    LET r1 == alloc_cache_ptr(c, e.key, num_blocks, offset, oom.k)
        r2 == alloc_cache_ptr(c, e.value, num_blocks, offset, oom.v)
        e1 == [e EXCEPT !.key = r1.ptr, !.value = r2.ptr,
                        !.abc[buffer_id] = @ + num_blocks,
                        !.remap = @ \cup ({"key"} \X r1.conflict)
                                    \cup ({"value"} \X r2.conflict)]
    IN [eng |-> e1, raised |-> (r1.status # 0 \/ r2.status # 0),
        status |-> <<r1.status, r2.status>>]

alloc_one_seq(c, e, buffer_id, num_blocks, offset, oom) ==
    LET r1 == alloc_cache_ptr(c, e.key, num_blocks, offset, oom.k)
        r2 == alloc_cache_ptr(c, e.value, num_blocks, offset, oom.v)
        e1 == [e EXCEPT !.key = r1.ptr, !.value = r2.ptr,
                        !.remap = @ \cup ({"key"} \X r1.conflict)
                                    \cup ({"value"} \X r2.conflict)]
    IN IF r1.status # 0 \/ r2.status # 0
       THEN [eng |-> e1, raised |-> TRUE, status |-> <<r1.status, r2.status>>]
       ELSE [eng |-> [e1 EXCEPT !.abc[buffer_id] = @ + num_blocks],
             raised |-> FALSE, status |-> <<r1.status, r2.status>>]

\* alloc_seqs without "num_blocks -= allocated_blocks"
RECURSIVE alloc_seqs_from_no_delta(_, _, _, _, _)
alloc_seqs_from_no_delta(c, e, req, ooms, i) ==
    IF i > Len(req)
    THEN [eng |-> e, raised |-> FALSE, at |-> 0, status |-> <<0, 0>>]
    ELSE LET buffer_id == req[i][1]
             allocated_blocks == e.abc[buffer_id]
             num_blocks == req[i][2]
             start_offset == buffer_id * cache_sapce_bytes_size(c)
             offset == start_offset + allocated_blocks * c.block_bytes_size
         IN IF num_blocks > 0
            THEN LET r == alloc_one_seq(c, e, buffer_id, num_blocks, offset,
                                        ooms[i])
                 IN IF r.raised
                    THEN [eng |-> r.eng, raised |-> TRUE, at |-> i,
                          status |-> r.status]
                    ELSE alloc_seqs_from_no_delta(c, r.eng, req, ooms, i + 1)
            ELSE alloc_seqs_from_no_delta(c, e, req, ooms, i + 1)

RECURSIVE alloc_seqs_from(_, _, _, _, _)
alloc_seqs_from(c, e, req, ooms, i) ==
    IF i > Len(req)
    THEN [eng |-> e, raised |-> FALSE, at |-> 0, status |-> <<0, 0>>]
    ELSE LET buffer_id == req[i][1]
             allocated_blocks == e.abc[buffer_id]
             num_blocks == req[i][2] - allocated_blocks
             start_offset == buffer_id * cache_sapce_bytes_size(c)
             offset == start_offset + allocated_blocks * c.block_bytes_size
         IN IF num_blocks > 0
            THEN LET r == alloc_one_seq(c, e, buffer_id, num_blocks, offset,
                                        ooms[i])
                 IN IF r.raised
                    THEN [eng |-> r.eng, raised |-> TRUE, at |-> i,
                          status |-> r.status]
                    ELSE alloc_seqs_from(c, r.eng, req, ooms, i + 1)
            ELSE alloc_seqs_from(c, e, req, ooms, i + 1)

\* req: the dict as the sequence of its (buffer_id, num_blocks) items
alloc_seqs(c, e, req, ooms) == alloc_seqs_from(c, e, req, ooms, 1)

free_one_seq(c, e, buffer_id, num_blocks, offset) ==
    LET r1 == release_cache_ptr(c, e.key, num_blocks, offset)
        r2 == release_cache_ptr(c, e.value, num_blocks, offset)
        e1 == [e EXCEPT !.key = r1.ptr, !.value = r2.ptr]
    IN IF r1.status # 0 \/ r2.status # 0
       THEN [eng |-> e1, raised |-> TRUE, status |-> <<r1.status, r2.status>>]
       ELSE [eng |-> [e1 EXCEPT !.abc[buffer_id] = @ - num_blocks],
             raised |-> FALSE, status |-> <<r1.status, r2.status>>]

RECURSIVE free_seqs_from(_, _, _, _)
free_seqs_from(c, e, free_buffer_ids, i) ==
    IF i > Len(free_buffer_ids)
    THEN [eng |-> e, raised |-> FALSE, at |-> 0, status |-> <<0, 0>>]
    ELSE LET buffer_id == free_buffer_ids[i]
             num_blocks == e.abc[buffer_id]
             offset == buffer_id * cache_sapce_bytes_size(c)
             r == free_one_seq(c, e, buffer_id, num_blocks, offset)
         IN IF r.raised
            THEN [eng |-> r.eng, raised |-> TRUE, at |-> i,
                  status |-> r.status]
            ELSE free_seqs_from(c, r.eng, free_buffer_ids, i + 1)

free_seqs(c, e, free_buffer_ids) == free_seqs_from(c, e, free_buffer_ids, 1)

\* ------------------------------------------------------------------------
\* Cache layout: the reservation viewed as a contiguous tensor of shape
\* (max_batch_size, max_seq_len, num_layers, num_kv_heads, head_size)
\* ------------------------------------------------------------------------
cell_bytes(c) == c.num_kv_heads * c.head_size * c.dtype_size

\* the offset in a (max_batch_size, num_layers, max_seq_len, ...) layout
cell_offset_layer_major(c, slot, token, layer) ==
    (((slot * c.num_layers + layer) * max_seq_len(c) + token)
        * c.num_kv_heads * c.head_size) * c.dtype_size

\* byte offset of the row of (slot, token, layer)
cell_offset(c, slot, token, layer) ==
    (((slot * max_seq_len(c) + token) * c.num_layers + layer)
        * c.num_kv_heads * c.head_size) * c.dtype_size

\* pages holding the bytes of the row of (slot, token, layer)
cell_pages(c, slot, token, layer) ==
    (cell_offset(c, slot, token, layer) \div c.block_bytes_size) ..
    ((cell_offset(c, slot, token, layer) + cell_bytes(c) - 1)
        \div c.block_bytes_size)

\* blocks the caller asks for to hold the first tokens tokens of a slot
pages_for_tokens(c, tokens) ==
    (tokens * c.num_layers * cell_bytes(c) + c.block_bytes_size - 1)
        \div c.block_bytes_size

\* ------------------------------------------------------------------------
\* Optional values: None is <<>>, a present value x is <<x>>
\* ------------------------------------------------------------------------
None == <<>>

Some(x) == <<x>>

RECURSIVE Concat(_)
Concat(ss) == IF ss = <<>> THEN <<>> ELSE Head(ss) \o Concat(Tail(ss))

RECURSIVE SumSeq(_)
SumSeq(q) == IF q = <<>> THEN 0 ELSE Head(q) + SumSeq(Tail(q))

RECURSIVE MaxSeq(_, _)
MaxSeq(q, default) ==
    IF q = <<>> THEN default ELSE Max(Head(q), MaxSeq(Tail(q), Head(q)))

\* list(accumulate(q, initial=0))
RECURSIVE accumulate(_, _)
accumulate(q, initial) ==
    IF q = <<>> THEN <<initial>>
    ELSE <<initial>> \o accumulate(Tail(q), initial + Head(q))

Repeat(x, n) == [i \in 1..n |-> x]

\* q[lo:hi] of Python, 0-based and half open
Slice(q, lo, hi) ==
    LET h == IF hi > Len(q) THEN Len(q) ELSE hi
    IN IF lo >= h THEN <<>> ELSE SubSeq(q, lo + 1, h)

\* ------------------------------------------------------------------------
\* vllm.attention.backends.utils, as the builder uses it
\* ------------------------------------------------------------------------
PAD_SLOT_ID == -1

\* one flat cell index per new token of the sequence
RECURSIVE compute_slot_mapping(_, _, _, _, _)
compute_slot_mapping(slot_mapping, seq_len, context_len, block_size, block_table) ==
    IF context_len >= seq_len THEN slot_mapping
    ELSE compute_slot_mapping(
             Append(slot_mapping,
                    block_table[(context_len \div block_size) + 1] * block_size
                        + (context_len % block_size)),
             seq_len, context_len + 1, block_size, block_table)

\* rows padded with pad to the length of the longest row
make_tensor_with_pad(rows, pad) ==
    LET width == MaxSeq([i \in 1..Len(rows) |-> Len(rows[i])], 0)
    IN [i \in 1..Len(rows) |->
           rows[i] \o Repeat(pad, width - Len(rows[i]))]

\* ------------------------------------------------------------------------
\* FlashAttentionMetadataBuilder
\* ------------------------------------------------------------------------
\* prepare()
prepare ==
    [slot_mapping |-> <<>>, prefill_seq_lens |-> <<>>, context_lens |-> <<>>,
     block_tables |-> <<>>, curr_seq_lens |-> <<>>,
     num_prefills |-> 0, num_prefill_tokens |-> 0, num_decode_tokens |-> 0,
     cache_batch_idx |-> <<>>, cache_cow_mapping |-> <<>>,
     cache_col_mapping |-> <<>>]

\* _add_seq_group from its j-th sequence on; ib is the input builder
RECURSIVE add_seq_group_from(_, _, _, _, _, _)
add_seq_group_from(b, ib, inter_data, chunked_prefill_enabled, prefix_cache_hit, j) ==
    IF j > Len(inter_data.seq_ids) THEN b
    ELSE
    LET seq_id == inter_data.seq_ids[j]
        token_len == inter_data.token_lens[j]
        seq_len == inter_data.orig_seq_lens[j]
        curr_seq_len == inter_data.seq_lens[j]
        query_len == inter_data.query_lens[j]
        context_len == inter_data.context_lens[j]
        curr_sliding_window_block == inter_data.curr_sliding_window_blocks[j]
        b1 == [b EXCEPT !.context_lens = Append(@, context_len)]
        b2 == IF inter_data.is_prompt
              THEN [b1 EXCEPT !.num_prefills = @ + 1,
                              !.num_prefill_tokens = @ + token_len,
                              !.prefill_seq_lens = Append(@, seq_len)]
              ELSE [b1 EXCEPT !.num_decode_tokens = @ + query_len,
                              !.curr_seq_lens = Append(@, curr_seq_len)]
    IN IF ib.use_vmm
       THEN \* the three lists of the whole group, then return
            [b2 EXCEPT
               !.cache_batch_idx = @ \o inter_data.cache_batch_idx,
               !.cache_cow_mapping = @ \o inter_data.cache_cow_mapping,
               !.cache_col_mapping = @ \o inter_data.cache_col_mapping]
       ELSE
       LET tables == inter_data.block_tables
           block_table ==
               IF prefix_cache_hit THEN tables[1][seq_id]
               ELSE IF (chunked_prefill_enabled \/ ~inter_data.is_prompt)
                       /\ tables # None
               THEN IF curr_sliding_window_block = 0
                    THEN tables[1][seq_id]
                    ELSE Slice(tables[1][seq_id],
                               Len(tables[1][seq_id])
                                   - curr_sliding_window_block,
                               Len(tables[1][seq_id]))
               ELSE <<>>
           b3 == [b2 EXCEPT
                    !.block_tables = Append(@, block_table),
                    !.slot_mapping =
                        compute_slot_mapping(@, seq_len, context_len,
                                             ib.block_size, tables[1][seq_id])]
       IN add_seq_group_from(b3, ib, inter_data, chunked_prefill_enabled,
                             prefix_cache_hit, j + 1)

add_seq_group(b, ib, inter_data, chunked_prefill_enabled, prefix_cache_hit) ==
    add_seq_group_from(b, ib, inter_data, chunked_prefill_enabled,
                       prefix_cache_hit, 1)

RECURSIVE add_seq_groups(_, _, _, _)
add_seq_groups(b, ib, prefix_cache_hit, k) ==
    IF k > Len(ib.inter_data_list) THEN b
    ELSE add_seq_groups(
             add_seq_group(b, ib, ib.inter_data_list[k],
                           ib.chunked_prefill_enabled, prefix_cache_hit),
             ib, prefix_cache_hit, k + 1)

\* the rows of runner.graph_block_tables[:num_seqs] after the copy
get_graph_runner_block_tables(ib, num_seqs, block_tables) ==
    LET max_blocks == ib.max_blocks
    IN [i \in 1..num_seqs |->
          IF i <= Len(block_tables) /\ block_tables[i] # <<>>
          THEN IF Len(block_tables[i]) <= max_blocks
               THEN block_tables[i]
                        \o Repeat(0, max_blocks - Len(block_tables[i]))
               ELSE Slice(block_tables[i], 0, max_blocks)
          ELSE Repeat(0, max_blocks)]

\* build(): the builder after the call and the metadata it returns
build(b0, ib, seq_lens, query_lens, cuda_graph_pad_size, batch_size) ==
    LET prefix_cache_hit ==
            \E k \in 1..Len(ib.inter_data_list) :
                ib.inter_data_list[k].prefix_cache_hit
        b == add_seq_groups(b0, ib, prefix_cache_hit, 1)
        use_captured_graph == cuda_graph_pad_size # -1
        decode_query_lens == Slice(query_lens, b.num_prefills, Len(query_lens))
        num_seqs == Len(seq_lens)
        padded == ~ib.use_vmm /\ use_captured_graph
        b_out == IF padded
                 THEN [b EXCEPT !.slot_mapping =
                                    @ \o Repeat(PAD_SLOT_ID,
                                                cuda_graph_pad_size),
                                \* [] * cuda_graph_pad_size is the empty list
                                !.block_tables =
                                    @ \o Concat(Repeat(<<>>,
                                                       cuda_graph_pad_size))]
                 ELSE b
        block_tables ==
            IF ib.use_vmm THEN None
            ELSE IF use_captured_graph
            THEN Some(get_graph_runner_block_tables(ib, num_seqs,
                                                    b_out.block_tables))
            ELSE Some(make_tensor_with_pad(b_out.block_tables, 0))
    IN IF query_lens = <<>> \/ MaxSeq(query_lens, 0) <= 0
       THEN [raised |-> TRUE, builder |-> b, metadata |-> None,
             error |-> IF query_lens = <<>> THEN "ValueError"
                       ELSE "AssertionError"]
       ELSE
       [raised |-> FALSE,
        error |-> "",
        builder |-> b_out,
        metadata |-> Some(
          [num_prefills |-> b.num_prefills,
           slot_mapping |-> IF ib.use_vmm THEN None
                            ELSE Some(b_out.slot_mapping),
           num_prefill_tokens |-> b.num_prefill_tokens,
           num_decode_tokens |-> IF padded
                                 THEN batch_size - b.num_prefill_tokens
                                 ELSE b.num_decode_tokens,
           seq_lens |-> Some(seq_lens),
           seq_lens_tensor |-> seq_lens,
           max_query_len |-> MaxSeq(query_lens, 0),
           max_decode_query_len |-> IF Len(decode_query_lens) > 0
                                    THEN MaxSeq(decode_query_lens, 0)
                                    ELSE 1,
           max_prefill_seq_len |-> MaxSeq(b.prefill_seq_lens, 0),
           max_decode_seq_len |-> MaxSeq(b.curr_seq_lens, 0),
           query_start_loc |-> accumulate(query_lens, 0),
           seq_start_loc |-> accumulate(seq_lens, 0),
           context_lens_tensor |-> Some(b.context_lens),
           block_tables |-> block_tables,
           use_vmm |-> ib.use_vmm,
           cache_batch_idx |-> IF ib.use_vmm THEN Some(b.cache_batch_idx)
                               ELSE None,
           cache_cow_mapping |-> IF ib.use_vmm THEN Some(b.cache_cow_mapping)
                                 ELSE None,
           cache_col_mapping |-> IF ib.use_vmm THEN Some(b.cache_col_mapping)
                                 ELSE None,
           use_cuda_graph |-> use_captured_graph,
           _cached_prefill_metadata |-> None,
           _cached_decode_metadata |-> None])]

\* ------------------------------------------------------------------------
\* FlashAttentionMetadata: the two views.  A tensor is the sequence of its
\* rows; an Optional field is None or Some(value)
\* ------------------------------------------------------------------------
\* q[lo:hi] of an Optional q
SliceOpt(q, lo, hi) == IF q = None THEN None ELSE Some(Slice(q[1], lo, hi))

\* q[lo:], q a list or tensor
SliceFrom(q, lo) == Slice(q, lo, Len(q))

\* the view with every per-request array cut at num_prefill_tokens
prefill_view_cut_at_tokens(md) ==
    [md EXCEPT
       !.num_decode_tokens = 0,
       !.slot_mapping = SliceOpt(md.slot_mapping, 0, md.num_prefill_tokens),
       !.seq_lens = SliceOpt(md.seq_lens, 0, md.num_prefill_tokens),
       !.seq_lens_tensor = Slice(md.seq_lens_tensor, 0, md.num_prefill_tokens),
       !.max_decode_query_len = 0,
       !.max_decode_seq_len = 0,
       !.query_start_loc = Slice(md.query_start_loc, 0,
                                 md.num_prefill_tokens + 1),
       !.seq_start_loc = Slice(md.seq_start_loc, 0, md.num_prefill_tokens + 1),
       !.context_lens_tensor = SliceOpt(md.context_lens_tensor, 0,
                                        md.num_prefill_tokens),
       !.block_tables = IF md.use_vmm THEN None
                        ELSE SliceOpt(md.block_tables, 0,
                                      md.num_prefill_tokens),
       !.use_cuda_graph = FALSE,
       !.cache_batch_idx = IF md.use_vmm
                           THEN SliceOpt(md.cache_batch_idx, 0,
                                         md.num_prefill_tokens)
                           ELSE None,
       !.cache_cow_mapping = None,
       !.cache_col_mapping = None,
       !._cached_prefill_metadata = None,
       !._cached_decode_metadata = None]

\* the view built without the cache_batch_idx of VMM mode
prefill_view_no_batch_idx(md) ==
    [md EXCEPT
       !.num_decode_tokens = 0,
       !.slot_mapping = SliceOpt(md.slot_mapping, 0, md.num_prefill_tokens),
       !.seq_lens = SliceOpt(md.seq_lens, 0, md.num_prefills),
       !.seq_lens_tensor = Slice(md.seq_lens_tensor, 0, md.num_prefills),
       !.max_decode_query_len = 0,
       !.max_decode_seq_len = 0,
       !.query_start_loc = Slice(md.query_start_loc, 0, md.num_prefills + 1),
       !.seq_start_loc = Slice(md.seq_start_loc, 0, md.num_prefills + 1),
       !.context_lens_tensor = SliceOpt(md.context_lens_tensor, 0,
                                        md.num_prefills),
       !.block_tables = IF md.use_vmm THEN None
                        ELSE SliceOpt(md.block_tables, 0, md.num_prefills),
       !.use_cuda_graph = FALSE,
       !.cache_batch_idx = None,
       !.cache_cow_mapping = None,
       !.cache_col_mapping = None,
       !._cached_prefill_metadata = None,
       !._cached_decode_metadata = None]

\* the FlashAttentionMetadata that prefill_metadata constructs
prefill_view(md) ==
    [num_prefills |-> md.num_prefills,
     slot_mapping |-> SliceOpt(md.slot_mapping, 0, md.num_prefill_tokens),
     num_prefill_tokens |-> md.num_prefill_tokens,
     num_decode_tokens |-> 0,
     seq_lens |-> SliceOpt(md.seq_lens, 0, md.num_prefills),
     seq_lens_tensor |-> Slice(md.seq_lens_tensor, 0, md.num_prefills),
     max_query_len |-> md.max_query_len,
     max_decode_query_len |-> 0,
     max_prefill_seq_len |-> md.max_prefill_seq_len,
     max_decode_seq_len |-> 0,
     query_start_loc |-> Slice(md.query_start_loc, 0, md.num_prefills + 1),
     seq_start_loc |-> Slice(md.seq_start_loc, 0, md.num_prefills + 1),
     context_lens_tensor |->
         SliceOpt(md.context_lens_tensor, 0, md.num_prefills),
     block_tables |-> IF md.use_vmm THEN None
                      ELSE SliceOpt(md.block_tables, 0, md.num_prefills),
     use_vmm |-> md.use_vmm,
     cache_batch_idx |-> IF md.use_vmm
                         THEN Some(Slice(md.cache_batch_idx[1], 0,
                                         md.num_prefills))
                         ELSE None,
     cache_cow_mapping |-> None,
     cache_col_mapping |-> None,
     use_cuda_graph |-> FALSE,
     _cached_prefill_metadata |-> None,
     _cached_decode_metadata |-> None]

\* the property prefill_metadata: what it returns and the metadata after
prefill_metadata(md) ==
    IF md.num_prefills = 0 THEN [ret |-> None, md |-> md]
    ELSE IF md._cached_prefill_metadata # None
    THEN [ret |-> md._cached_prefill_metadata, md |-> md]
    ELSE [ret |-> Some(prefill_view(md)),
          md |-> [md EXCEPT !._cached_prefill_metadata =
                                Some(prefill_view(md))]]

\* the view with query_start_loc cut but not rebased
decode_view_not_rebased(md) ==
    [md EXCEPT
       !.num_prefills = 0,
       !.num_prefill_tokens = 0,
       !.slot_mapping = IF md.slot_mapping = None THEN None
                        ELSE Some(SliceFrom(md.slot_mapping[1],
                                            md.num_prefill_tokens)),
       !.seq_lens = None,
       !.seq_lens_tensor = SliceFrom(md.seq_lens_tensor, md.num_prefills),
       !.max_prefill_seq_len = 0,
       !.query_start_loc = SliceFrom(md.query_start_loc, md.num_prefills),
       !.seq_start_loc = SliceFrom(md.seq_start_loc, md.num_prefills),
       !.context_lens_tensor = None,
       !.block_tables = IF md.use_vmm \/ md.block_tables = None THEN None
                        ELSE Some(SliceFrom(md.block_tables[1],
                                            md.num_prefills)),
       !.use_cuda_graph = IF md.use_vmm THEN FALSE ELSE md.use_cuda_graph,
       !.cache_batch_idx = IF md.use_vmm
                           THEN Some(SliceFrom(md.cache_batch_idx[1],
                                               md.num_prefills))
                           ELSE None,
       !.cache_cow_mapping = None,
       !.cache_col_mapping = None,
       !._cached_prefill_metadata = None,
       !._cached_decode_metadata = None]

\* the view with slot_mapping cut at num_prefills
decode_view_cut_at_requests(md) ==
    [decode_view_not_rebased(md) EXCEPT
       !.slot_mapping = IF md.slot_mapping = None THEN None
                        ELSE Some(SliceFrom(md.slot_mapping[1],
                                            md.num_prefills)),
       !.query_start_loc =
           LET tail == SliceFrom(md.query_start_loc, md.num_prefills)
           IN [i \in 1..Len(tail) |->
                  tail[i] - md.query_start_loc[md.num_prefills + 1]]]

\* the FlashAttentionMetadata that decode_metadata constructs
decode_view(md) ==
    [num_prefills |-> 0,
     slot_mapping |-> IF md.slot_mapping = None THEN None
                      ELSE Some(SliceFrom(md.slot_mapping[1],
                                          md.num_prefill_tokens)),
     num_prefill_tokens |-> 0,
     num_decode_tokens |-> md.num_decode_tokens,
     seq_lens |-> None,
     seq_lens_tensor |-> SliceFrom(md.seq_lens_tensor, md.num_prefills),
     max_query_len |-> md.max_query_len,
     max_decode_query_len |-> md.max_decode_query_len,
     max_prefill_seq_len |-> 0,
     max_decode_seq_len |-> md.max_decode_seq_len,
     query_start_loc |->
         LET tail == SliceFrom(md.query_start_loc, md.num_prefills)
         IN [i \in 1..Len(tail) |->
                tail[i] - md.query_start_loc[md.num_prefills + 1]],
     seq_start_loc |-> SliceFrom(md.seq_start_loc, md.num_prefills),
     context_lens_tensor |-> None,
     block_tables |-> IF md.use_vmm \/ md.block_tables = None THEN None
                      ELSE Some(SliceFrom(md.block_tables[1],
                                          md.num_prefills)),
     use_vmm |-> md.use_vmm,
     cache_batch_idx |-> IF md.use_vmm
                         THEN Some(SliceFrom(md.cache_batch_idx[1],
                                             md.num_prefills))
                         ELSE None,
     cache_cow_mapping |-> None,
     cache_col_mapping |-> None,
     use_cuda_graph |-> IF md.use_vmm THEN FALSE ELSE md.use_cuda_graph,
     _cached_prefill_metadata |-> None,
     _cached_decode_metadata |-> None]

\* decode_metadata building the view anew at every access
decode_metadata_not_memoized(md) ==
    IF md.num_decode_tokens = 0 THEN [ret |-> None, md |-> md]
    ELSE [ret |-> Some(decode_view(md)),
          md |-> [md EXCEPT !._cached_decode_metadata =
                                Some(decode_view(md))]]

\* the property decode_metadata: what it returns and the metadata after
decode_metadata(md) ==
    IF md.num_decode_tokens = 0 THEN [ret |-> None, md |-> md]
    ELSE IF md._cached_decode_metadata # None
    THEN [ret |-> md._cached_decode_metadata, md |-> md]
    ELSE [ret |-> Some(decode_view(md)),
          md |-> [md EXCEPT !._cached_decode_metadata =
                                Some(decode_view(md))]]

\* ------------------------------------------------------------------------
\* FlashAttentionMetadata.advance_step
\* ------------------------------------------------------------------------
\* entry k of a block-table row; rows are zero padded
RowEntry(row, k) == IF k <= Len(row) THEN row[k] ELSE 0

\* ops.advance_step_flashattn, for the request at index i (from 1): the cell
\* of the token that follows the seq_len tokens held so far
next_slot(block_tables, seq_len, block_size, i) ==
    RowEntry(block_tables[i], (seq_len \div block_size) + 1) * block_size
        + (seq_len % block_size)

\* a tensor that is a slice, from offset on, of a storage whose first
\* Len(head) entries are now head
Aliased(view, offset, head) ==
    [j \in 1..Len(view) |->
        IF offset + j <= Len(head) THEN head[offset + j] ELSE view[j]]

\* ops.advance_step_flashattn: the device tensors after the kernel, which
\* adds one to seq_lens_tensor and stores the next cell in slot_mapping for
\* the first num_queries requests; the cached views are slices of the same
\* tensors
advance_step_flashattn(md, num_queries, block_size) ==
    LET seq_lens_tensor ==
            [i \in 1..Len(md.seq_lens_tensor) |->
                IF i <= num_queries THEN md.seq_lens_tensor[i] + 1
                ELSE md.seq_lens_tensor[i]]
        slot_mapping ==
            [i \in 1..Len(md.slot_mapping[1]) |->
                IF i <= num_queries
                THEN next_slot(md.block_tables[1], md.seq_lens_tensor[i],
                               block_size, i)
                ELSE md.slot_mapping[1][i]]
        written == Slice(slot_mapping, 0, num_queries)
        p == md._cached_prefill_metadata
        d == md._cached_decode_metadata
        \* num_prefills when the decode view was built
        at == IF d = None THEN 0
              ELSE Len(md.seq_lens_tensor) - Len(d[1].seq_lens_tensor)
    IN [md EXCEPT
          !.seq_lens_tensor = seq_lens_tensor,
          !.slot_mapping = Some(slot_mapping),
          !._cached_prefill_metadata =
              IF p = None THEN None
              ELSE Some([p[1] EXCEPT
                           !.seq_lens_tensor = Aliased(@, 0, seq_lens_tensor),
                           !.slot_mapping =
                               Some(Aliased(@[1], 0, written))]),
          !._cached_decode_metadata =
              IF d = None THEN None
              ELSE Some([d[1] EXCEPT
                           !.seq_lens_tensor = Aliased(@, at, seq_lens_tensor),
                           !.slot_mapping =
                               Some(Aliased(@[1], md.query_start_loc[at + 1],
                                            written))])]

\* the assertions of lines 380-401 on the metadata as it stands: "" when all
\* hold, else the exception raised by the first that does not
advance_step_checks(md, num_seqs, num_queries) ==
    IF \/ md.num_prefills # 0
       \/ md.num_prefill_tokens # 0
       \/ md.num_decode_tokens # num_seqs
    THEN "AssertionError"
    ELSE IF md.slot_mapping = None THEN "AttributeError"
    ELSE IF \/ Len(md.slot_mapping[1]) # num_seqs
            \/ md.seq_lens = None
            \/ Len(md.seq_lens[1]) # num_seqs
            \/ Len(md.seq_lens_tensor) # num_seqs
            \/ md.max_query_len # 1
            \/ md.max_prefill_seq_len # 0
            \/ Len(md.query_start_loc) # num_queries + 1
            \/ Len(md.seq_start_loc) # num_seqs + 1
            \/ md.context_lens_tensor = None
            \/ Len(md.context_lens_tensor[1]) # num_queries
            \/ md.block_tables = None
            \/ Len(md.block_tables[1]) # num_seqs
    THEN "AssertionError"
    ELSE ""

\* the conversion made before its assertion is evaluated
advance_step_branch_convert_first(md, num_seqs, turn_prefills_into_decodes) ==
    IF turn_prefills_into_decodes
    THEN LET md1 == [md EXCEPT
                       !.num_decode_tokens = @ + md.num_prefills,
                       !.num_prefills = 0,
                       !.num_prefill_tokens = 0,
                       !.max_prefill_seq_len = 0,
                       !.max_query_len = 1]
         IN IF md.num_decode_tokens + md.num_prefills # num_seqs
            THEN [md |-> md1, error |-> "AssertionError"]
            ELSE IF md.slot_mapping = None
            THEN [md |-> md1, error |-> "TypeError"]
            ELSE [md |-> [md1 EXCEPT !.slot_mapping =
                              Some(Slice(@[1], 0, num_seqs))],
                  error |-> ""]
    ELSE IF md.seq_lens = None
    THEN [md |-> md, error |-> "AssertionError"]
    ELSE IF md.seq_lens[1] = <<>>
    THEN [md |-> md, error |-> "ValueError"]
    ELSE IF md.max_decode_seq_len # MaxSeq(md.seq_lens[1], 0)
    THEN [md |-> md, error |-> "AssertionError"]
    ELSE [md |-> md, error |-> ""]

\* lines 363-378: the branch on turn_prefills_into_decodes
advance_step_branch(md, num_seqs, turn_prefills_into_decodes) ==
    IF turn_prefills_into_decodes
    THEN IF md.num_decode_tokens + md.num_prefills # num_seqs
         THEN [md |-> md, error |-> "AssertionError"]
         ELSE LET md1 == [md EXCEPT
                            !.num_decode_tokens = @ + md.num_prefills,
                            !.num_prefills = 0,
                            !.num_prefill_tokens = 0,
                            !.max_prefill_seq_len = 0,
                            !.max_query_len = 1]
              IN IF md.slot_mapping = None
                 THEN [md |-> md1, error |-> "TypeError"]
                 ELSE [md |-> [md1 EXCEPT !.slot_mapping =
                                   Some(Slice(@[1], 0, num_seqs))],
                       error |-> ""]
    ELSE IF md.seq_lens = None
    THEN [md |-> md, error |-> "AssertionError"]
    ELSE IF md.seq_lens[1] = <<>>
    THEN [md |-> md, error |-> "ValueError"]
    ELSE IF md.max_decode_seq_len # MaxSeq(md.seq_lens[1], 0)
    THEN [md |-> md, error |-> "AssertionError"]
    ELSE [md |-> md, error |-> ""]

\* the update with max_decode_seq_len left as it was
advance_step_update_stale_max(md, num_queries, block_size) ==
    LET seq_lens == [i \in 1..Len(md.seq_lens[1]) |->
                        IF i <= num_queries THEN md.seq_lens[1][i] + 1
                        ELSE md.seq_lens[1][i]]
    IN advance_step_flashattn([md EXCEPT !.seq_lens = Some(seq_lens)],
                              num_queries, block_size)

\* lines 405-417: the increment, the new maximum and the device kernel
advance_step_update(md, num_queries, block_size) ==
    LET seq_lens == [i \in 1..Len(md.seq_lens[1]) |->
                        IF i <= num_queries THEN md.seq_lens[1][i] + 1
                        ELSE md.seq_lens[1][i]]
    IN advance_step_flashattn(
           [md EXCEPT !.seq_lens = Some(seq_lens),
                      !.max_decode_seq_len = MaxSeq(seq_lens, 0)],
           num_queries, block_size)

\* advance_step adding one to seq_lens ahead of its checks
advance_step_increment_first(md, block_size, num_seqs, num_queries, turn_prefills_into_decodes) ==
    LET b == advance_step_branch(md, num_seqs, turn_prefills_into_decodes)
        e == IF b.error # "" THEN b.error
             ELSE advance_step_checks(b.md, num_seqs, num_queries)
        seq_lens == IF md.seq_lens = None THEN None
                    ELSE Some([i \in 1..Len(md.seq_lens[1]) |->
                                  IF i <= num_queries
                                  THEN md.seq_lens[1][i] + 1
                                  ELSE md.seq_lens[1][i]])
    IN IF num_seqs # num_queries
          /\ ~(num_seqs > num_queries /\ md.use_cuda_graph)
       THEN [md |-> md, raised |-> TRUE, error |-> "AssertionError",
             updated |-> FALSE]
       ELSE IF e # ""
       THEN [md |-> [b.md EXCEPT !.seq_lens = seq_lens],
             raised |-> TRUE, error |-> e, updated |-> FALSE]
       ELSE [md |-> advance_step_update(b.md, num_queries, block_size),
             raised |-> FALSE, error |-> "", updated |-> TRUE]

\* advance_step adding one to all num_seqs entries of seq_lens
advance_step_all_seqs(md, block_size, num_seqs, num_queries, turn_prefills_into_decodes) ==
    LET b == advance_step_branch(md, num_seqs, turn_prefills_into_decodes)
        e == IF b.error # "" THEN b.error
             ELSE advance_step_checks(b.md, num_seqs, num_queries)
    IN IF num_seqs # num_queries
          /\ ~(num_seqs > num_queries /\ md.use_cuda_graph)
       THEN [md |-> md, raised |-> TRUE, error |-> "AssertionError",
             updated |-> FALSE]
       ELSE IF e # ""
       THEN [md |-> b.md, raised |-> TRUE, error |-> e, updated |-> FALSE]
       ELSE [md |-> advance_step_update(b.md, num_seqs, block_size),
             raised |-> FALSE, error |-> "", updated |-> TRUE]

\* advance_step: the metadata after the call, whether and with what the
\* call raised, and whether it reached the update of lines 405-417
advance_step(md, block_size, num_seqs, num_queries, turn_prefills_into_decodes) ==
    LET b == advance_step_branch(md, num_seqs, turn_prefills_into_decodes)
        e == IF b.error # "" THEN b.error
             ELSE advance_step_checks(b.md, num_seqs, num_queries)
    IN IF num_seqs # num_queries
          /\ ~(num_seqs > num_queries /\ md.use_cuda_graph)
       THEN [md |-> md, raised |-> TRUE, error |-> "AssertionError",
             updated |-> FALSE]
       ELSE IF e # ""
       THEN [md |-> b.md, raised |-> TRUE, error |-> e, updated |-> FALSE]
       ELSE [md |-> advance_step_update(b.md, num_queries, block_size),
             raised |-> FALSE, error |-> "", updated |-> TRUE]

\* ------------------------------------------------------------------------
\* What the model runner hands to the builder for one sequence group:
\* descs are the (context_len, query_len) of its sequences, slots their
\* cache slots, seq_ids their ids
\* ------------------------------------------------------------------------
BlockTableOf(seq_id, seq_len, block_size) ==
    [k \in 1..((seq_len + block_size - 1) \div block_size) |->
        2 * seq_id + k - 1]

InterData(use_vmm, is_prompt, hit, descs, seq_ids, slots, block_size) ==
    LET n == Len(descs)
        lens == [j \in 1..n |-> descs[j].context_len + descs[j].query_len]
    IN [is_prompt |-> is_prompt,
        prefix_cache_hit |-> hit,
        seq_ids |-> seq_ids,
        token_lens |-> [j \in 1..n |-> descs[j].query_len],
        orig_seq_lens |-> lens,
        seq_lens |-> lens,
        query_lens |-> [j \in 1..n |-> descs[j].query_len],
        context_lens |-> [j \in 1..n |-> descs[j].context_len],
        curr_sliding_window_blocks |-> [j \in 1..n |-> 0],
        block_tables |->
            IF use_vmm THEN None
            ELSE Some([id \in {seq_ids[j] : j \in 1..n} |->
                          LET at == CHOOSE m \in 1..n : seq_ids[m] = id
                          IN BlockTableOf(id, lens[at], block_size)]),
        cache_batch_idx |-> IF use_vmm THEN slots ELSE <<>>,
        cache_cow_mapping |->
            IF use_vmm
            THEN Concat([j \in 1..n |-> Repeat(slots[j], descs[j].query_len)])
            ELSE <<>>,
        cache_col_mapping |->
            IF use_vmm
            THEN Concat([j \in 1..n |->
                            [t \in 1..descs[j].query_len |->
                                descs[j].context_len + t - 1]])
            ELSE <<>>]

\* ------------------------------------------------------------------------
\* FlashAttentionImpl.forward: the cache write of one step, over the layers
\* ------------------------------------------------------------------------
\* cells (cow[i], col[i], layer) of both reservations, as (slot, page) pairs
reshape_and_cache_vmm(c, cache_cow_mapping, cache_col_mapping) ==
    UNION {{<<cache_cow_mapping[i], p>> :
               p \in cell_pages(c, cache_cow_mapping[i], cache_col_mapping[i],
                                layer)} :
              i \in 1..Len(cache_cow_mapping),
              layer \in 0..(c.num_layers - 1)}

forward_write(c, md) ==
    IF md.use_vmm
    THEN reshape_and_cache_vmm(c, md.cache_cow_mapping[1],
                               md.cache_col_mapping[1])
    ELSE {}

\* ------------------------------------------------------------------------
\* FlashAttentionImpl.forward: the attention kernels of one step.  A kernel
\* call is the function called, what it is given as keys ("key": the new
\* keys of the step, "key_cache": the cache) and its two optional addressing
\* arguments; an argument that is None is an argument not supplied
\* ------------------------------------------------------------------------
KernelCall(func, k, block_table, cache_batch_idx) ==
    [func |-> func, k |-> k, block_table |-> block_table,
     cache_batch_idx |-> cache_batch_idx]

\* Tensor.numel() of a tensor given as its rows
numel(rows) == SumSeq([i \in 1..Len(rows) |-> Len(rows[i])])

\* sizes of the kv_cache handed to forward: 0 in the profiling run
KvCacheNumels == {0, 1}

\* get_seq_len_block_table_args for a decoder: (seq_lens, max_seq_len,
\* block_tables) of the decode phase
get_seq_len_block_table_args(md) ==
    <<md.seq_lens_tensor, md.max_decode_seq_len, md.block_tables>>

\* the prompt run
forward_prefill(prefill_meta, kv_cache_numel) ==
    IF \/ kv_cache_numel = 0
       \/ prefill_meta.block_tables = None
       \/ numel(prefill_meta.block_tables[1]) = 0
    THEN KernelCall("flash_attn_varlen_func", "key", None, None)
    ELSE KernelCall("flash_attn_varlen_func", "key_cache",
                    prefill_meta.block_tables, None)

\* the decoding run
forward_decode(decode_meta, use_vmm) ==
    IF decode_meta.max_decode_query_len > 1
    THEN KernelCall("flash_attn_varlen_func", "key_cache",
                    decode_meta.block_tables, None)
    ELSE IF use_vmm
    THEN KernelCall("flash_attn_with_kvcache", "key_cache", None,
                    decode_meta.cache_batch_idx)
    ELSE KernelCall("flash_attn_with_kvcache", "key_cache",
                    get_seq_len_block_table_args(decode_meta)[3], None)

\* the kernels forward calls for a metadata, and the metadata afterwards
forward_attention(md, kv_cache_numel) ==
    LET p == prefill_metadata(md)
        d == decode_metadata(p.md)
    IN [prefill |-> IF p.ret = None THEN None
                    ELSE Some(forward_prefill(p.ret[1], kv_cache_numel)),
        decode |-> IF d.ret = None THEN None
                   ELSE Some(forward_decode(d.ret[1], md.use_vmm)),
        md |-> d.md]

\* ------------------------------------------------------------------------
\* Inputs
\* ------------------------------------------------------------------------
Oom == [k : BOOLEAN, v : BOOLEAN]

NoOom == [k |-> FALSE, v |-> FALSE]

\* the driver's answers when it has memory for every request
NoOoms(n) == [i \in 1..n |-> NoOom]

\* the driver's answers to the map requests of one call over n entries: the
\* call stops at the first refusal, so at most one entry is refused
OomChoices(n, allowed) ==
    {[i \in 1..n |-> NoOom]} \cup
    (IF allowed
     THEN {[i \in 1..n |-> IF i = j THEN o ELSE NoOom] :
              j \in 1..n, o \in Oom \ {NoOom}}
     ELSE {})

Refused(ooms) == \E i \in DOMAIN ooms : ooms[i] # NoOom

\* the lists of at most MaxEntries distinct slots
SlotLists(c) ==
    {s \in UNION {[1..k -> Slots(c)] : k \in 1..MaxEntries} :
        \A i, j \in 1..Len(s) : i # j => s[i] # s[j]}

\* the dicts {buffer_id: num_blocks} a caller may pass to alloc_seqs
AllocRequests(c) ==
    UNION {{[i \in 1..Len(s) |-> <<s[i], n[i]>>] :
                n \in [1..Len(s) -> 1..MaxBlocks]} : s \in SlotLists(c)}

\* the lists a caller may pass to free_seqs (a slot may be listed twice)
FreeRequests(c) == UNION {[1..k -> Slots(c)] : k \in 1..MaxEntries}

\* the record of a call: its name, whether it raised, the statuses of the
\* driver calls it raised on, the pages it asked to map while mapped, and
\* for alloc_seqs the counters when it was made
Last(op, raised, status, remap, old) ==
    [op |-> op, raised |-> raised, status |-> status, remap |-> remap,
     old |-> old]

NoCall == Last("none", FALSE, <<0, 0>>, {}, <<>>)

\* ------------------------------------------------------------------------
\* State machine of the engine
\* ------------------------------------------------------------------------
EngineNow == Engine(allocated_block_counts, key_cache_ptr, value_cache_ptr)

SetEngine(e) ==
    /\ allocated_block_counts' = e.abc
    /\ key_cache_ptr' = e.key
    /\ value_cache_ptr' = e.value

InitEngine ==
    /\ cfg \in Configs
    /\ pc = "new"
    /\ allocated_block_counts = <<>>
    /\ key_cache_ptr = NoPtr
    /\ value_cache_ptr = NoPtr
    /\ last = NoCall
    /\ faults = 0
    /\ kv_written = {}

NoInput ==
    [use_vmm |-> FALSE, chunked_prefill_enabled |-> FALSE, block_size |-> 0,
     max_blocks |-> 0, inter_data_list |-> <<>>, cuda_graph_pad_size |-> -1]

IdleMeta ==
    /\ input_builder = NoInput
    /\ phase = "idle"
    /\ builder = prepare
    /\ attn_metadata = None
    /\ advanced = 0
    /\ error = ""

\* the reservations made and no block mapped for any slot
InitCache_no_first_block(c, ok_key, ok_value, ooms) ==
    LET total == c.max_num_seqs * cache_space_page_num(c)
        k == reserve_cache_ptr(total, ok_key)
        v == reserve_cache_ptr(total, ok_value)
        zeros == [i \in Slots(c) |-> 0]
    IN IF k.status # 0
       THEN [eng |-> Engine(zeros, NoPtr, NoPtr), raised |-> TRUE]
       ELSE IF v.status # 0
       THEN [eng |-> Engine(zeros, k.ptr, NoPtr), raised |-> TRUE]
       ELSE [eng |-> Engine(zeros, k.ptr, v.ptr), raised |-> FALSE]

\* _reserve_gpu_kv_cache, then _init_gpu_kv_cache_tensor's alloc_seqs
InitCache(c, ok_key, ok_value, ooms) ==
    LET total == c.max_num_seqs * cache_space_page_num(c)
        k == reserve_cache_ptr(total, ok_key)
        v == reserve_cache_ptr(total, ok_value)
        zeros == [i \in Slots(c) |-> 0]
        alloc_dict == [i \in 1..c.max_num_seqs |-> <<i - 1, 1>>]
    IN IF k.status # 0
       THEN [eng |-> Engine(zeros, NoPtr, NoPtr), raised |-> TRUE]
       ELSE IF v.status # 0
       THEN [eng |-> Engine(zeros, k.ptr, NoPtr), raised |-> TRUE]
       ELSE LET r == alloc_seqs(c, Engine(zeros, k.ptr, v.ptr), alloc_dict,
                                ooms)
            IN [eng |-> r.eng, raised |-> r.raised]

\* CacheEngineVMM.__init__
Construct ==
    /\ pc = "new"
    /\ \E ok_key, ok_value \in BOOLEAN,
          ooms \in OomChoices(cfg.max_num_seqs, TRUE) :
          IF ~ConfigValid(cfg)
          THEN /\ pc' = "failed"
               /\ last' = Last("init", TRUE, <<0, 0>>, {}, <<>>)
               /\ UNCHANGED <<allocated_block_counts, key_cache_ptr,
                              value_cache_ptr>>
          ELSE LET r == InitCache(cfg, ok_key, ok_value, ooms)
               IN /\ pc' = IF r.raised THEN "failed" ELSE "ready"
                  /\ last' = Last("init", r.raised, <<0, 0>>, r.eng.remap,
                                   <<>>)
                  /\ SetEngine(r.eng)
    /\ kv_written' = {}
    /\ UNCHANGED <<cfg, faults>>
    /\ UNCHANGED meta_vars

\* CacheEngineVMM.alloc_seqs called from outside the engine
AllocSeqs ==
    /\ pc = "ready"
    /\ \E req \in AllocRequests(cfg) :
       \E ooms \in OomChoices(Len(req), faults < MaxFaults) :
          LET r == alloc_seqs(cfg, EngineNow, req, ooms)
          IN /\ Refused(ooms) => r.raised /\ ooms[r.at] # NoOom
             /\ SetEngine(r.eng)
             /\ last' = Last("alloc_seqs", r.raised, r.status, r.eng.remap,
                              allocated_block_counts)
             /\ faults' = IF Refused(ooms) /\ r.raised THEN faults + 1
                          ELSE faults
    /\ kv_written' = {}
    /\ UNCHANGED <<cfg, pc>>
    /\ UNCHANGED meta_vars

\* CacheEngineVMM.free_seqs called from outside the engine
FreeSeqs ==
    /\ pc = "ready"
    /\ \E ids \in FreeRequests(cfg) :
          LET r == free_seqs(cfg, EngineNow, ids)
          IN /\ SetEngine(r.eng)
             /\ last' = Last("free_seqs", r.raised, r.status, {}, <<>>)
    /\ kv_written' = {}
    /\ UNCHANGED <<cfg, pc, faults>>
    /\ UNCHANGED meta_vars

\* the longest sequence length that n blocks hold
FullLens(c, n) ==
    LET lens == {u \in 1..max_seq_len(c) : pages_for_tokens(c, u) = n}
    IN {t \in lens : \A u \in lens : t >= u}

\* what a request in the given slot may be in a step: a prompt of seq_len
\* tokens or the decode of its last token
StepCandidates(c, slot) ==
    UNION {{[slot |-> slot, context_len |-> x, seq_len |-> t,
             is_prompt |-> (x = 0)] : x \in {0, t - 1}} :
              t \in UNION {FullLens(c, n) : n \in 1..MaxBlocks}}

RECURSIVE StepRequestsFrom(_, _, _)
StepRequestsFrom(c, slots, i) ==
    IF i > Len(slots) THEN {<<>>}
    ELSE {<<x>> \o rest : x \in StepCandidates(c, slots[i]),
                          rest \in StepRequestsFrom(c, slots, i + 1)}

\* the requests of a step: distinct slots, prompts before decodes
StepRequests(c) ==
    {r \in UNION {StepRequestsFrom(c, slots, 1) : slots \in SlotLists(c)} :
        \A i, j \in 1..Len(r) :
            i < j => /\ r[j].is_prompt => r[i].is_prompt
                     /\ r[i].is_prompt = r[j].is_prompt => r[i].slot < r[j].slot}

\* the dict the worker passes to alloc_seqs before the step
StepAllocDict(c, r) ==
    [i \in 1..Len(r) |-> <<r[i].slot, pages_for_tokens(c, r[i].seq_len)>>]

StepInput(c, r) ==
    [use_vmm |-> TRUE, chunked_prefill_enabled |-> FALSE,
     block_size |-> c.block_size, max_blocks |-> 0,
     cuda_graph_pad_size |-> -1,
     inter_data_list |->
        [i \in 1..Len(r) |->
            InterData(TRUE, r[i].is_prompt, FALSE,
                      <<[context_len |-> r[i].context_len,
                         query_len |-> r[i].seq_len - r[i].context_len]>>,
                      <<i>>, <<r[i].slot>>, c.block_size)]]

\* seq_lens and query_lens as the model runner flattens them for build()
FlatSeqLens(ib) ==
    Concat([k \in 1..Len(ib.inter_data_list) |->
               ib.inter_data_list[k].seq_lens])

FlatQueryLens(ib) ==
    Concat([k \in 1..Len(ib.inter_data_list) |->
               ib.inter_data_list[k].query_lens])

\* One VMM step: the worker sizes the slots of the requests with alloc_seqs,
\* the metadata of the batch is built, then forward() writes the new keys
\* and values
Step ==
    /\ pc = "ready"
    /\ \E r \in StepRequests(cfg) :
          LET a == alloc_seqs(cfg, EngineNow, StepAllocDict(cfg, r),
                              NoOoms(Len(r)))
              ib == StepInput(cfg, r)
              res == build(prepare, ib, FlatSeqLens(ib), FlatQueryLens(ib),
                           -1, Len(r))
          IN /\ SetEngine(a.eng)
             /\ last' = Last("step", a.raised, a.status, a.eng.remap, <<>>)
             /\ IF a.raised THEN kv_written' = {}
                ELSE /\ ~res.raised
                     /\ kv_written' = forward_write(cfg, res.metadata[1])
    /\ UNCHANGED <<cfg, pc, faults>>
    /\ UNCHANGED meta_vars

Init == InitEngine /\ IdleMeta

Next == Construct \/ AllocSeqs \/ FreeSeqs \/ Step

Spec == Init /\ [][Next]_vars

\* ------------------------------------------------------------------------
\* The page size of the allocator against the block size of the engine, over
\* block_bytes_size values that are and are not multiples of 2 MiB
\* ------------------------------------------------------------------------
\* the granularity of the driver, the page size of a fresh CacheAllocator
DefaultPageSize == 2 * MB

\* the page size of the allocator after __init__: set_page_size(n) sets it
\* to n times 2 MiB and is called only when n > 1
page_size(c) ==
    LET n == c.block_bytes_size \div (2 * MB)
    IN IF n > 1 THEN n * DefaultPageSize ELSE DefaultPageSize

\* the offset alloc_seqs hands to alloc_one_seq for a slot that has
\* allocated_blocks blocks
alloc_offset(c, buffer_id, allocated_blocks) ==
    buffer_id * cache_sapce_bytes_size(c)
        + allocated_blocks * c.block_bytes_size

\* the bytes [lo, hi) that mapping one page at that offset covers
BlockBytes(c, buffer_id, k) ==
    [lo |-> alloc_offset(c, buffer_id, k),
     hi |-> alloc_offset(c, buffer_id, k) + page_size(c)]

PageLayerCounts == {1, 2, 3}
PageBlockBytesSizes == {MB, 2 * MB, 3 * MB, 4 * MB, 6 * MB}

PageConfigs ==
    [max_num_seqs : BatchSizes,
     max_model_len : ModelLens,
     block_size : BlockSizes,
     num_layers : PageLayerCounts,
     num_kv_heads : KvHeadCounts,
     head_size : HeadSizes,
     dtype_size : DtypeSizes,
     block_bytes_size : PageBlockBytesSizes]

InitPage ==
    /\ cfg \in PageConfigs
    /\ pc = "new"
    /\ allocated_block_counts = <<>>
    /\ key_cache_ptr = NoPtr
    /\ value_cache_ptr = NoPtr
    /\ last = NoCall
    /\ faults = 0
    /\ kv_written = {}
    /\ IdleMeta

\* __init__ up to the page size: the configuration is checked, the page
\* size is set, the counters are zeroed
SetPageSize ==
    /\ pc = "new"
    /\ IF ConfigValid(cfg)
       THEN /\ pc' = "sized"
            /\ allocated_block_counts' = [i \in Slots(cfg) |-> 0]
       ELSE /\ pc' = "failed"
            /\ UNCHANGED allocated_block_counts
    /\ last' = Last("init", ~ConfigValid(cfg), <<0, 0>>, {}, <<>>)
    /\ UNCHANGED <<cfg, key_cache_ptr, value_cache_ptr, faults, kv_written>>
    /\ UNCHANGED meta_vars

\* alloc_seqs growing one slot by one block: the offset it computes and the
\* counter
MapBlock ==
    /\ pc = "sized"
    /\ \E buffer_id \in Slots(cfg) :
          /\ allocated_block_counts[buffer_id] < cache_space_page_num(cfg)
          /\ allocated_block_counts' =
                [allocated_block_counts EXCEPT ![buffer_id] = @ + 1]
          /\ last' = Last("alloc", FALSE, <<0, 0>>, {},
                          <<BlockBytes(cfg, buffer_id,
                                       allocated_block_counts[buffer_id])>>)
    /\ UNCHANGED <<cfg, pc, key_cache_ptr, value_cache_ptr, faults,
                   kv_written>>
    /\ UNCHANGED meta_vars

NextPage == SetPageSize \/ MapBlock

SpecPage == InitPage /\ [][NextPage]_vars

\* ------------------------------------------------------------------------
\* State machine of the metadata builder: a batch is prepared, then built
\* ------------------------------------------------------------------------
\* context lengths, query lengths and cuda_graph_pad_size values explored
ContextLens == {0, 1}
QueryLens == {1, 2}
PadSizes == {-1, 0, 1}

SeqDescs == [context_len : ContextLens, query_len : QueryLens]

\* the sequences of a group are siblings of the same lengths
SeqDescLists == {Repeat(d, n) : d \in SeqDescs, n \in 1..MaxSeqsPerGroup}

\* a prompt group may have hit the prefix cache when it brings context along;
\* the sequences of a decode group all have context
GroupChoices ==
    {g \in [is_prompt : BOOLEAN, hit : BOOLEAN, descs : SeqDescLists] :
        /\ g.hit => g.is_prompt /\ \E j \in 1..Len(g.descs) :
                                      g.descs[j].context_len > 0
        /\ ~g.is_prompt => \A j \in 1..Len(g.descs) :
                              g.descs[j].context_len > 0}

\* prompts come first
BatchChoices ==
    {gs \in UNION {[1..n -> GroupChoices] : n \in 0..MaxGroups} :
        \A i, j \in 1..Len(gs) : i < j /\ gs[j].is_prompt => gs[i].is_prompt}

RECURSIVE SeqsBefore(_, _)
SeqsBefore(gs, k) ==
    IF k <= 1 THEN 0 ELSE SeqsBefore(gs, k - 1) + Len(gs[k - 1].descs)

\* graph capture pads decode-only batches of single-token queries
PadChoices(gs) ==
    IF gs # <<>> /\ \A k \in 1..Len(gs) :
                       /\ ~gs[k].is_prompt
                       /\ \A j \in 1..Len(gs[k].descs) :
                             gs[k].descs[j].query_len = 1
    THEN PadSizes ELSE {-1}

BuilderBlockSizes == {16}

InputFor(use_vmm, chunked, block_size, pad, gs) ==
    [use_vmm |-> use_vmm, chunked_prefill_enabled |-> chunked,
     block_size |-> block_size, max_blocks |-> 1,
     cuda_graph_pad_size |-> pad,
     inter_data_list |->
        [k \in 1..Len(gs) |->
            LET ids == [j \in 1..Len(gs[k].descs) |->
                           SeqsBefore(gs, k) + j - 1]
            IN InterData(use_vmm, gs[k].is_prompt, gs[k].hit, gs[k].descs,
                         ids, ids, block_size)]]

InitMeta ==
    /\ \E use_vmm, chunked \in BOOLEAN, block_size \in BuilderBlockSizes,
          gs \in BatchChoices :
          \E pad \in PadChoices(gs) :
             input_builder = InputFor(use_vmm, chunked, block_size, pad, gs)
    /\ phase = "prepared"
    /\ builder = prepare
    /\ attn_metadata = None
    /\ advanced = 0
    /\ error = ""

IdleEngine ==
    /\ cfg = [max_num_seqs |-> 0, max_model_len |-> 0, block_size |-> 0,
              num_layers |-> 0, num_kv_heads |-> 0, head_size |-> 0,
              dtype_size |-> 0, block_bytes_size |-> 0]
    /\ pc = "none"
    /\ allocated_block_counts = <<>>
    /\ key_cache_ptr = NoPtr
    /\ value_cache_ptr = NoPtr
    /\ last = NoCall
    /\ faults = 0
    /\ kv_written = {}

\* the padded seq_lens and the padded batch size the model runner passes
PaddedSeqLens(ib) ==
    FlatSeqLens(ib) \o
        Repeat(1, IF ib.cuda_graph_pad_size > 0 THEN ib.cuda_graph_pad_size
                  ELSE 0)

\* FlashAttentionMetadataBuilder.build
Build ==
    /\ phase = "prepared"
    /\ LET seq_lens == PaddedSeqLens(input_builder)
           res == build(builder, input_builder, seq_lens,
                        FlatQueryLens(input_builder),
                        input_builder.cuda_graph_pad_size, Len(seq_lens))
       IN /\ phase' = IF res.raised THEN "failed" ELSE "built"
          /\ builder' = res.builder
          /\ attn_metadata' = res.metadata
          /\ error' = res.error
    /\ UNCHANGED <<input_builder, advanced>>
    /\ UNCHANGED engine_vars

\* FlashAttentionImpl.forward reading attn_metadata.prefill_metadata, then
\* attn_metadata.decode_metadata
ForwardViews ==
    /\ phase = "built"
    /\ \E kv_cache_numel \in KvCacheNumels :
          attn_metadata' =
              Some(forward_attention(attn_metadata[1], kv_cache_numel).md)
    /\ phase' = "forwarded"
    /\ error' = ""
    /\ UNCHANGED <<input_builder, builder, advanced>>
    /\ UNCHANGED engine_vars

\* number of requests of a metadata, padding left out
NumQueries(md) == Len(md.query_start_loc) - 1

\* the (num_seqs, num_queries, turn_prefills_into_decodes) a caller may
\* pass: the padded or the true number of requests for either count
AdvanceArgs(md) ==
    [num_seqs : {Len(md.seq_lens_tensor), NumQueries(md)},
     num_queries : {Len(md.seq_lens_tensor), NumQueries(md)},
     turn_prefills_into_decodes : BOOLEAN]

\* FlashAttentionMetadata.advance_step, between two forward passes; an
\* exception ends the step
AdvanceStep ==
    /\ phase = "forwarded"
    /\ advanced < MaxAdvance
    /\ \E a \in AdvanceArgs(attn_metadata[1]) :
          LET r == advance_step(attn_metadata[1], input_builder.block_size,
                                a.num_seqs, a.num_queries,
                                a.turn_prefills_into_decodes)
          IN /\ attn_metadata' = Some(r.md)
             /\ phase' = IF r.raised THEN "raised" ELSE "built"
             /\ advanced' = IF r.raised THEN advanced ELSE advanced + 1
             /\ error' = r.error
    /\ UNCHANGED <<input_builder, builder>>
    /\ UNCHANGED engine_vars

NextMeta == Build \/ ForwardViews \/ AdvanceStep

\* a prepared batch in front of a builder, no engine involved
InitBuild == InitMeta /\ IdleEngine

SpecMeta == InitBuild /\ [][NextMeta]_vars

\* ------------------------------------------------------------------------
\* Properties of the engine
\* ------------------------------------------------------------------------
\* the first n pages of the sub-range of slot s, and the whole sub-range
SlotPages(c, s, n) ==
    {s * cache_space_page_num(c) + i : i \in 0..(n - 1)}

SlotRange(c, s) == SlotPages(c, s, cache_space_page_num(c))

\* C1: once the engine is constructed, for every slot exactly the first
\* allocated_block_counts[s] pages of the slot's sub-range are mapped in the
\* key reservation and in the value reservation, whatever alloc_seqs and
\* free_seqs calls were made and whatever the driver answered.
C1_MappedPrefix ==
    pc = "ready" =>
        \A s \in Slots(cfg) :
            LET counted == SlotPages(cfg, s, allocated_block_counts[s])
                rest == SlotRange(cfg, s) \ counted
            IN /\ counted \subseteq key_cache_ptr.mapped
               /\ counted \subseteq value_cache_ptr.mapped
               /\ rest \cap key_cache_ptr.mapped = {}
               /\ rest \cap value_cache_ptr.mapped = {}

\* C2: every (slot, token) cell a step writes, after alloc_seqs was called
\* for the slots of the step, lies in a page that is mapped in both
\* reservations and counted for that slot.
C2_WritesMapped ==
    (last.op = "step" /\ ~last.raised) =>
        \A w \in kv_written :
            /\ w[2] \in key_cache_ptr.mapped
            /\ w[2] \in value_cache_ptr.mapped
            /\ w[2] \in SlotPages(cfg, w[1], allocated_block_counts[w[1]])

\* a step wrote into a page of a slot that was mapped after construction
C2_Witness ==
    /\ last.op = "step"
    /\ ~last.raised
    /\ \E w \in kv_written : w[2] > w[1] * cache_space_page_num(cfg)

\* pages the entries of an alloc_seqs dict ask for, counted from old
GrownPages(c, req, old) ==
    UNION {IF req[i][2] > old[req[i][1]]
           THEN PageRange(c, req[i][2] - old[req[i][1]],
                          req[i][1] * cache_sapce_bytes_size(c)
                              + old[req[i][1]] * c.block_bytes_size)
           ELSE {} : i \in 1..Len(req)}

GrownCount(req, old) ==
    SumSeq([i \in 1..Len(req) |->
               IF req[i][2] > old[req[i][1]]
               THEN req[i][2] - old[req[i][1]] ELSE 0])

\* C3: in every state the engine reaches, an alloc_seqs call that returns
\* without error leaves every listed counter at max(old, n), maps exactly
\* the n - old pages that start at byte offset s * cache_sapce_bytes_size +
\* old * block_bytes_size in each reservation and unmaps nothing; the same
\* call made again returns and changes nothing.
C3_AllocSeqs ==
    pc = "ready" =>
        \A req \in AllocRequests(cfg) :
            LET r == alloc_seqs(cfg, EngineNow, req, NoOoms(Len(req)))
                old == allocated_block_counts
                grown == GrownPages(cfg, req, old)
                again == alloc_seqs(cfg, r.eng, req, NoOoms(Len(req)))
            IN ~r.raised =>
                 /\ \A i \in 1..Len(req) :
                       r.eng.abc[req[i][1]] = Max(old[req[i][1]], req[i][2])
                 /\ r.eng.key.mapped = key_cache_ptr.mapped \cup grown
                 /\ r.eng.value.mapped = value_cache_ptr.mapped \cup grown
                 /\ Cardinality(r.eng.key.mapped) =
                       Cardinality(key_cache_ptr.mapped) + GrownCount(req, old)
                 /\ Cardinality(r.eng.value.mapped) =
                       Cardinality(value_cache_ptr.mapped)
                           + GrownCount(req, old)
                 /\ ~again.raised
                 /\ again.eng.abc = r.eng.abc
                 /\ again.eng.key = r.eng.key
                 /\ again.eng.value = r.eng.value

\* an alloc_seqs call returned after growing a slot that had pages
C3_Witness ==
    /\ last.op = "alloc_seqs"
    /\ ~last.raised
    /\ \E s \in Slots(cfg) :
          /\ last.old[s] >= 1
          /\ allocated_block_counts[s] > last.old[s]
          /\ SlotPages(cfg, s, allocated_block_counts[s])
                \subseteq (key_cache_ptr.mapped \cap value_cache_ptr.mapped)

\* C4: in every state the engine reaches, when one of the two
\* alloc_cache_ptr calls of alloc_one_seq returns a non-zero status the call
\* raises and the counter of its slot keeps the value it had before the
\* call.
C4_FailedAllocKeepsCounter ==
    pc = "ready" =>
        \A req \in AllocRequests(cfg) :
        \A ooms \in OomChoices(Len(req), TRUE) :
            LET r == alloc_seqs(cfg, EngineNow, req, ooms)
            IN (r.status[1] # 0 \/ r.status[2] # 0) =>
                 /\ r.raised
                 /\ r.eng.abc[req[r.at][1]] =
                       allocated_block_counts[req[r.at][1]]

\* an alloc_seqs call raised on a refused value mapping and no counter moved
C4_Witness ==
    /\ last.op = "alloc_seqs"
    /\ last.raised
    /\ last.status = <<0, 1>>
    /\ allocated_block_counts = last.old

\* C5: in every state the engine reaches, a free_seqs call that returns
\* without error releases exactly the counted pages of every listed slot in
\* both reservations and zeroes its counter, leaves the other slots alone,
\* and the slot can be used again at once: an alloc_seqs({s: n}) that
\* follows, with n within the slot's sub-range and a driver that has memory,
\* leaves the counter at n.
C5_FreeSeqs ==
    pc = "ready" =>
        \A ids \in FreeRequests(cfg) :
            LET f == free_seqs(cfg, EngineNow, ids)
                listed == {ids[i] : i \in 1..Len(ids)}
                freed == UNION {SlotPages(cfg, s, allocated_block_counts[s]) :
                                   s \in listed}
            IN ~f.raised =>
                 /\ \A s \in listed : f.eng.abc[s] = 0
                 /\ freed \subseteq key_cache_ptr.mapped
                 /\ freed \subseteq value_cache_ptr.mapped
                 /\ f.eng.key.mapped = key_cache_ptr.mapped \ freed
                 /\ f.eng.value.mapped = value_cache_ptr.mapped \ freed
                 /\ \A t \in Slots(cfg) \ listed :
                       f.eng.abc[t] = allocated_block_counts[t]
                 /\ \A s \in listed, n \in 1..cache_space_page_num(cfg) :
                       alloc_seqs(cfg, f.eng, <<<<s, n>>>>,
                                  NoOoms(1)).eng.abc[s] = n

\* C6: no counter ever exceeds cache_space_page_num.
C6_CountWithinSlot ==
    pc = "ready" =>
        \A s \in Slots(cfg) :
            allocated_block_counts[s] <= cache_space_page_num(cfg)

\* C7: no call asks the driver to map a page of the key or of the value
\* reservation that is mapped at the time of the request.
C7_NoRemap == last.remap = {}

\* C8: every cell (slot, token, layer) lies below the end of the reservation,
\* and its page index is below slot * cache_space_page_num +
\* allocated_block_counts[slot] once the slot holds the
\* ceil((token + 1) * num_layers * num_kv_heads * head_size * dtype_size /
\* block_bytes_size) blocks of its first token + 1 tokens.
C8_Layout ==
    pc = "ready" =>
        \A slot \in Slots(cfg), token \in 0..(max_seq_len(cfg) - 1),
           layer \in 0..(cfg.num_layers - 1) :
            LET off == cell_offset(cfg, slot, token, layer)
                need == ((token + 1) * cfg.num_layers * cfg.num_kv_heads
                            * cfg.head_size * cfg.dtype_size
                            + cfg.block_bytes_size - 1)
                        \div cfg.block_bytes_size
            IN /\ off < cfg.max_num_seqs * max_seq_len(cfg) * cfg.num_layers
                           * cfg.num_kv_heads * cfg.head_size * cfg.dtype_size
               /\ allocated_block_counts[slot] >= need =>
                     off \div cfg.block_bytes_size <
                         slot * (cache_sapce_bytes_size(cfg)
                                    \div cfg.block_bytes_size)
                             + allocated_block_counts[slot]

\* the last slot of an engine of several slots and layers was grown to hold
\* max_seq_len tokens
C8_Witness ==
    /\ pc = "ready"
    /\ last.op = "alloc_seqs"
    /\ cfg.max_num_seqs > 1
    /\ cfg.num_layers > 1
    /\ cache_space_page_num(cfg) > 1
    /\ allocated_block_counts[cfg.max_num_seqs - 1] =
          cache_space_page_num(cfg)

\* bytes of one slot: max_seq_len after round-up * num_layers * num_kv_heads
\* * head_size * dtype_size
SlotBytes(c) ==
    ((IF c.max_model_len % c.block_size = 0 THEN c.max_model_len
      ELSE (c.max_model_len \div c.block_size + 1) * c.block_size)
        * c.num_layers * c.num_kv_heads * c.head_size * c.dtype_size)

\* C9: construction with a slot size that is no multiple of block_bytes_size
\* fails, with no range reserved and no page mapped.
C9_ConfigRejected ==
    (pc # "new" /\ SlotBytes(cfg) % cfg.block_bytes_size # 0) =>
        /\ pc = "failed"
        /\ key_cache_ptr = NoPtr
        /\ value_cache_ptr = NoPtr

\* construction was refused for a slot size of that is no multiple of the block size
C9_Witness ==
    /\ pc = "failed"
    /\ last.op = "init"
    /\ SlotBytes(cfg) % cfg.block_bytes_size # 0

\* ------------------------------------------------------------------------
\* Properties of the metadata builder
\* ------------------------------------------------------------------------
\* C10: a VMM batch has as many cache_cow_mapping and cache_col_mapping
\* entries as num_prefill_tokens + num_decode_tokens, also when a group holds
\* several sequences; a legacy batch built without graph padding has as many
\* slot_mapping entries.
C10_TokenAccounting ==
    phase = "built" =>
        LET md == attn_metadata[1]
            tokens == md.num_prefill_tokens + md.num_decode_tokens
        IN /\ md.use_vmm =>
                 /\ Len(md.cache_cow_mapping[1]) = tokens
                 /\ Len(md.cache_col_mapping[1]) = tokens
           /\ (~md.use_vmm /\ input_builder.cuda_graph_pad_size = -1) =>
                 Len(md.slot_mapping[1]) = tokens

\* the metadata of a batch exists: build() returned and no call raised since
HasMetadata == phase \in {"built", "forwarded"}

\* the metadata is as build() returned it: advance_step has not changed it
AsBuilt == HasMetadata /\ advanced = 0

\* the requests of a batch, one per sequence, in the order of the batch
Requests(ib) ==
    Concat([k \in 1..Len(ib.inter_data_list) |->
               LET g == ib.inter_data_list[k]
               IN [j \in 1..Len(g.seq_ids) |->
                      [is_prompt |-> g.is_prompt,
                       query_len |-> g.query_lens[j],
                       seq_len |-> g.seq_lens[j]]]])

\* the requests of the batch that are prompts (want TRUE) or decodes
RequestsOf(ib, want) == SelectSeq(Requests(ib), LAMBDA r : r.is_prompt = want)

QueryLensOf(rs) == [i \in 1..Len(rs) |-> rs[i].query_len]

SeqLensOf(rs) == [i \in 1..Len(rs) |-> rs[i].seq_len]

\* C11: for every batch built by build, in VMM and in legacy mode,
\* num_prefills is the number of prompt requests of the batch,
\* num_prefill_tokens + num_decode_tokens is sum(query_lens), and
\* max_query_len is max(query_lens) and positive.  The sum is the one before
\* graph padding: a padded legacy batch counts its pad in num_decode_tokens.
C11_BatchCounts ==
    AsBuilt =>
        LET md == attn_metadata[1]
            query_lens == QueryLensOf(Requests(input_builder))
        IN /\ md.num_prefills = Len(RequestsOf(input_builder, TRUE))
           /\ (md.use_vmm \/ input_builder.cuda_graph_pad_size <= 0) =>
                 md.num_prefill_tokens + md.num_decode_tokens =
                     SumSeq(query_lens)
           /\ md.max_query_len = MaxSeq(query_lens, 0)
           /\ md.max_query_len > 0

C13_EmptyBatch ==
    (phase # "prepared" /\ input_builder.inter_data_list = <<>>) =>
        /\ error = ""
        /\ phase # "failed"
        /\ attn_metadata = None

\* ------------------------------------------------------------------------
\* Properties of the two views
\* ------------------------------------------------------------------------
\* what the two property reads return for the metadata of the batch
PrefillRead == prefill_metadata(attn_metadata[1])

DecodeRead == decode_metadata(attn_metadata[1])

\* the parts of a prefill view that do not depend on the addressing mode
PrefillViewCommon(md, v) ==
    /\ v.num_decode_tokens = 0
    /\ v.use_cuda_graph = FALSE
    /\ v.slot_mapping = SliceOpt(md.slot_mapping, 0, md.num_prefill_tokens)
    /\ v.query_start_loc = SubSeq(md.query_start_loc, 1, md.num_prefills + 1)
    /\ v.seq_lens = Some(SubSeq(md.seq_lens[1], 1, md.num_prefills))
    /\ v.seq_lens_tensor = SubSeq(md.seq_lens_tensor, 1, md.num_prefills)
    /\ v.context_lens_tensor =
          Some(SubSeq(md.context_lens_tensor[1], 1, md.num_prefills))
    /\ v.block_tables = IF md.block_tables = None THEN None
                        ELSE Some(SubSeq(md.block_tables[1], 1,
                                         md.num_prefills))
    /\ v.cache_batch_idx = IF md.cache_batch_idx = None THEN None
                           ELSE Some(SubSeq(md.cache_batch_idx[1], 1,
                                            md.num_prefills))

\* C14 as stated: for a metadata with at least one prefill, prefill_metadata
\* has num_decode_tokens = 0 and use_cuda_graph = FALSE, and its
\* slot_mapping, cache_cow_mapping, cache_col_mapping, query_start_loc,
\* seq_lens, seq_lens_tensor, context_lens_tensor, block_tables and
\* cache_batch_idx are the parent's cut to the first num_prefills requests
\* (num_prefill_tokens tokens), in VMM and in legacy mode.
C14_PrefillView ==
    (AsBuilt /\ attn_metadata[1].num_prefills >= 1) =>
        LET md == attn_metadata[1]
            v == PrefillRead.ret[1]
        IN /\ PrefillViewCommon(md, v)
           /\ v.cache_cow_mapping =
                 SliceOpt(md.cache_cow_mapping, 0, md.num_prefill_tokens)
           /\ v.cache_col_mapping =
                 SliceOpt(md.cache_col_mapping, 0, md.num_prefill_tokens)

\* C14 amended: as C14, except that cache_cow_mapping and cache_col_mapping
\* of the view are None in both modes.
C14_PrefillViewAmended ==
    (AsBuilt /\ attn_metadata[1].num_prefills >= 1) =>
        LET md == attn_metadata[1]
            v == PrefillRead.ret[1]
        IN /\ PrefillViewCommon(md, v)
           /\ v.cache_cow_mapping = None
           /\ v.cache_col_mapping = None

\* forward has read the prefill view of a VMM batch of prompts and decodes
C14_Witness ==
    /\ phase = "forwarded"
    /\ advanced = 0
    /\ attn_metadata[1].use_vmm
    /\ attn_metadata[1].num_prefills >= 1
    /\ attn_metadata[1].num_decode_tokens >= 1
    /\ attn_metadata[1]._cached_prefill_metadata # None
    /\ PrefillRead.ret = attn_metadata[1]._cached_prefill_metadata

WriteIndices(m) ==
    IF m = None THEN <<>>
    ELSE IF m[1].use_vmm
    THEN IF m[1].cache_cow_mapping = None \/ m[1].cache_col_mapping = None
         THEN <<>>
         ELSE [i \in 1..Len(m[1].cache_cow_mapping[1]) |->
                  <<m[1].cache_cow_mapping[1][i],
                    m[1].cache_col_mapping[1][i]>>]
    ELSE IF m[1].slot_mapping = None THEN <<>>
    ELSE m[1].slot_mapping[1]

\* C16 as stated: in VMM and in legacy mode, the write indices of
\* prefill_metadata followed by those of decode_metadata are the write
\* indices of the full metadata, in the same order.
C16_ViewWrites ==
    AsBuilt =>
        WriteIndices(PrefillRead.ret) \o WriteIndices(DecodeRead.ret) =
            WriteIndices(attn_metadata)

\* C16 amended: in legacy mode the slot_mapping of prefill_metadata followed
\* by that of decode_metadata is the slot_mapping of the full metadata, in
\* the same order; in VMM mode the two views carry no write indices
\* (cache_cow_mapping and cache_col_mapping are None, as is slot_mapping)
\* and the indices of the full metadata are one per entry of
\* cache_cow_mapping.
C16_ViewWritesAmended ==
    AsBuilt =>
        IF attn_metadata[1].use_vmm
        THEN /\ WriteIndices(PrefillRead.ret) = <<>>
             /\ WriteIndices(DecodeRead.ret) = <<>>
             /\ Len(WriteIndices(attn_metadata)) =
                   Len(attn_metadata[1].cache_cow_mapping[1])
        ELSE WriteIndices(PrefillRead.ret) \o WriteIndices(DecodeRead.ret) =
                 WriteIndices(attn_metadata)

\* forward has read both views of a legacy batch whose prompts bring more
\* tokens than requests, followed by decodes
C16_Witness ==
    /\ phase = "forwarded"
    /\ advanced = 0
    /\ ~attn_metadata[1].use_vmm
    /\ attn_metadata[1].num_prefills >= 1
    /\ attn_metadata[1].num_prefill_tokens > attn_metadata[1].num_prefills
    /\ attn_metadata[1].num_decode_tokens >= 1
    /\ WriteIndices(attn_metadata[1]._cached_prefill_metadata) # <<>>
    /\ WriteIndices(attn_metadata[1]._cached_decode_metadata) # <<>>

\* C17: prefill_metadata is None when the metadata has no prefill tokens and
\* decode_metadata is None when it has no decode tokens; otherwise the first
\* read builds the view and stores it, and every later read returns the
\* stored view and changes nothing.
C17_Memoized ==
    HasMetadata =>
        LET md == attn_metadata[1]
            p == prefill_metadata(md)
            d == decode_metadata(md)
        IN /\ md.num_prefill_tokens = 0 => p.ret = None /\ p.md = md
           /\ md.num_decode_tokens = 0 => d.ret = None /\ d.md = md
           /\ md.num_prefill_tokens > 0 =>
                 /\ p.ret # None
                 /\ p.md._cached_prefill_metadata = p.ret
                 /\ md._cached_prefill_metadata # None =>
                       p.ret = md._cached_prefill_metadata /\ p.md = md
                 /\ prefill_metadata(p.md) = [ret |-> p.ret, md |-> p.md]
           /\ md.num_decode_tokens > 0 =>
                 /\ d.ret # None
                 /\ d.md._cached_decode_metadata = d.ret
                 /\ md._cached_decode_metadata # None =>
                       d.ret = md._cached_decode_metadata /\ d.md = md
                 /\ decode_metadata(d.md) = [ret |-> d.ret, md |-> d.md]

\* a decode view stored before an advance_step is still the one returned,
\* though a view built now would differ
C17_Witness ==
    /\ HasMetadata
    /\ advanced >= 1
    /\ attn_metadata[1]._cached_decode_metadata # None
    /\ DecodeRead.ret = attn_metadata[1]._cached_decode_metadata
    /\ DecodeRead.ret # Some(decode_view(attn_metadata[1]))

\* ------------------------------------------------------------------------
\* Properties of advance_step
\* ------------------------------------------------------------------------
\* what advance_step does to the metadata of the batch when called with a
AdvanceCall(a) ==
    advance_step(attn_metadata[1], input_builder.block_size, a.num_seqs,
                 a.num_queries, a.turn_prefills_into_decodes)

\* the counts a caller may pass as num_seqs and num_queries: the sequences,
\* the queries, and the tokens the conversion counts
AdvanceCounts(md) ==
    {Len(md.seq_lens_tensor), NumQueries(md),
     md.num_decode_tokens + md.num_prefills}

AdvanceCalls(md) ==
    [num_seqs : AdvanceCounts(md), num_queries : AdvanceCounts(md),
     turn_prefills_into_decodes : BOOLEAN]

\* the lengths of the arrays of a metadata (None counts as -1)
OptLen(q) == IF q = None THEN -1 ELSE Len(q[1])

ArrayLens(md) ==
    <<OptLen(md.slot_mapping), OptLen(md.seq_lens), Len(md.seq_lens_tensor),
      Len(md.query_start_loc), Len(md.seq_start_loc),
      OptLen(md.context_lens_tensor), OptLen(md.block_tables),
      OptLen(md.cache_batch_idx), OptLen(md.cache_cow_mapping),
      OptLen(md.cache_col_mapping)>>

Counters(md) ==
    <<md.num_prefills, md.num_prefill_tokens, md.num_decode_tokens,
      md.max_query_len, md.max_decode_query_len, md.max_prefill_seq_len>>

\* C18: an advance_step without turn_prefills_into_decodes that returns adds
\* exactly 1 to seq_lens[i] for i < num_queries, leaves seq_lens[i] for
\* num_queries <= i < num_seqs, sets max_decode_seq_len to max(seq_lens) and
\* changes no counter and no array length; after k calls that returned,
\* seq_lens[i] is its value at build time + k for i < num_queries and
\* max_decode_seq_len is max(seq_lens).
C18_AdvanceStep ==
    HasMetadata =>
        LET md == attn_metadata[1]
            initial == PaddedSeqLens(input_builder)
        IN /\ \A a \in AdvanceArgs(md) :
                 LET r == AdvanceCall(a)
                 IN (~a.turn_prefills_into_decodes /\ ~r.raised) =>
                       /\ Len(r.md.seq_lens[1]) = a.num_seqs
                       /\ \A i \in 1..a.num_seqs :
                             r.md.seq_lens[1][i] =
                                 IF i <= a.num_queries
                                 THEN md.seq_lens[1][i] + 1
                                 ELSE md.seq_lens[1][i]
                       /\ r.md.max_decode_seq_len = MaxSeq(r.md.seq_lens[1], 0)
                       /\ Counters(r.md) = Counters(md)
                       /\ ArrayLens(r.md) = ArrayLens(md)
           /\ Len(md.seq_lens[1]) = Len(initial)
           /\ \A i \in 1..Len(initial) :
                 md.seq_lens[1][i] =
                     IF i <= NumQueries(md) THEN initial[i] + advanced
                     ELSE initial[i]
           /\ advanced >= 1 =>
                 md.max_decode_seq_len = MaxSeq(md.seq_lens[1], 0)

\* two advance_step calls returned on a batch padded for graph capture
C18_Witness ==
    /\ phase = "built"
    /\ advanced = 2
    /\ error = ""
    /\ Len(attn_metadata[1].seq_lens[1]) > NumQueries(attn_metadata[1])
    /\ attn_metadata[1].seq_lens[1][1] =
          PaddedSeqLens(input_builder)[1] + 2

\* the branch taken when turn_prefills_into_decodes is set, as C19 states it
ConversionUpdates(md, r, num_seqs) ==
    /\ r.md.num_prefills = 0
    /\ r.md.num_decode_tokens = md.num_decode_tokens + md.num_prefills
    /\ r.md.max_prefill_seq_len = 0
    /\ r.md.max_query_len = 1
    /\ Len(r.md.slot_mapping[1]) = num_seqs
    /\ r.md.max_decode_query_len = md.max_decode_query_len
    /\ ArrayLens(r.md)[2] = ArrayLens(md)[2]
    /\ SubSeq(ArrayLens(r.md), 3, 10) = SubSeq(ArrayLens(md), 3, 10)

\* C19 as stated: an advance_step with turn_prefills_into_decodes that
\* returns has made exactly these host-side updates: num_prefills is 0,
\* num_decode_tokens has grown by the former num_prefills,
\* max_prefill_seq_len is 0, max_query_len is 1 and slot_mapping is cut to
\* num_seqs; seq_lens and max_decode_seq_len, which the other branch
\* updates, are as before, and so is every other field.
C19_Conversion ==
    HasMetadata =>
        LET md == attn_metadata[1]
        IN \A a \in AdvanceArgs(md) :
              LET r == AdvanceCall(a)
              IN (a.turn_prefills_into_decodes /\ ~r.raised) =>
                    /\ ConversionUpdates(md, r, a.num_seqs)
                    /\ r.md.num_prefill_tokens = md.num_prefill_tokens
                    /\ r.md.seq_lens = md.seq_lens
                    /\ r.md.max_decode_seq_len = md.max_decode_seq_len

\* C19 amended: an advance_step with turn_prefills_into_decodes that returns
\* has made these host-side updates: num_prefills and num_prefill_tokens are
\* 0, num_decode_tokens has grown by the former num_prefills,
\* max_prefill_seq_len is 0, max_query_len is 1 and slot_mapping is cut to
\* num_seqs; then, as in the other branch, seq_lens[i] has grown by 1 for
\* i < num_queries and max_decode_seq_len is max(seq_lens).
C19_ConversionAmended ==
    HasMetadata =>
        LET md == attn_metadata[1]
        IN \A a \in AdvanceArgs(md) :
              LET r == AdvanceCall(a)
              IN (a.turn_prefills_into_decodes /\ ~r.raised) =>
                    /\ ConversionUpdates(md, r, a.num_seqs)
                    /\ r.md.num_prefill_tokens = 0
                    /\ \A i \in 1..a.num_seqs :
                          r.md.seq_lens[1][i] =
                              IF i <= a.num_queries
                              THEN md.seq_lens[1][i] + 1
                              ELSE md.seq_lens[1][i]
                    /\ r.md.max_decode_seq_len = MaxSeq(r.md.seq_lens[1], 0)

\* an advance_step turned the prompts of a batch into decodes and cut its
\* slot_mapping
C19_Witness ==
    /\ phase = "built"
    /\ advanced = 1
    /\ error = ""
    /\ RequestsOf(input_builder, TRUE) # <<>>
    /\ attn_metadata[1].num_prefills = 0
    /\ attn_metadata[1].num_decode_tokens = Len(Requests(input_builder))
    /\ SumSeq(QueryLensOf(Requests(input_builder))) >
          Len(attn_metadata[1].slot_mapping[1])

\* the conditions of C20 on the metadata that advance_step updates
AdvanceConditions(md, num_seqs) ==
    /\ md.num_prefills = 0
    /\ md.num_prefill_tokens = 0
    /\ md.max_query_len = 1
    /\ md.max_prefill_seq_len = 0
    /\ md.num_decode_tokens = num_seqs
    /\ OptLen(md.slot_mapping) = num_seqs
    /\ OptLen(md.seq_lens) = num_seqs
    /\ Len(md.seq_lens_tensor) = num_seqs
    /\ Len(md.seq_start_loc) = num_seqs + 1
    /\ OptLen(md.block_tables) = num_seqs

\* the metadata in front of the checks of lines 380-401: after the updates
\* of the conversion branch when turn_prefills_into_decodes is set
BeforeChecks(md, a) ==
    IF a.turn_prefills_into_decodes
          /\ md.num_decode_tokens + md.num_prefills = a.num_seqs
    THEN [md EXCEPT !.num_decode_tokens = @ + md.num_prefills,
                    !.num_prefills = 0,
                    !.num_prefill_tokens = 0,
                    !.max_prefill_seq_len = 0,
                    !.max_query_len = 1,
                    !.slot_mapping = IF @ = None THEN None
                                     ELSE Some(SubSeq(@[1], 1,
                                          IF a.num_seqs < Len(@[1])
                                          THEN a.num_seqs ELSE Len(@[1])))]
    ELSE md

\* C20: advance_step reaches the increment of seq_lens and the device helper
\* only when num_prefills = 0, num_prefill_tokens = 0, max_query_len = 1,
\* max_prefill_seq_len = 0, num_decode_tokens = num_seqs and slot_mapping,
\* seq_lens, seq_lens_tensor, seq_start_loc and block_tables have num_seqs
\* (seq_start_loc: num_seqs + 1) rows; when one of these does not hold the
\* call raises an AssertionError and nothing is incremented.
C20_AdvanceGuards ==
    HasMetadata =>
        LET md == attn_metadata[1]
        IN \A a \in AdvanceArgs(md) :
              LET r == AdvanceCall(a)
                  m == BeforeChecks(md, a)
              IN /\ r.updated => AdvanceConditions(m, a.num_seqs)
                 /\ r.updated = ~r.raised
                 /\ ~AdvanceConditions(m, a.num_seqs) =>
                       /\ r.raised
                       /\ ~r.updated
                       /\ r.md.seq_lens = md.seq_lens
                       /\ r.md.seq_lens_tensor = md.seq_lens_tensor
                       /\ r.error = "AssertionError"

\* ------------------------------------------------------------------------
\* Properties of the kernels forward selects
\* ------------------------------------------------------------------------
\* the kernel calls of a step that read keys and values from the cache
CacheReads(f) ==
    {c \in {f.prefill, f.decode} : c # None /\ c[1].k = "key_cache"}

\* C21: every kernel call of forward that reads keys and values from the
\* cache (prefix-enabled prefill, variable-length decode, single-query
\* decode) is given cache_batch_idx and no block table when the metadata is
\* in VMM mode, and a block table and no cache_batch_idx in legacy mode.
C21_KernelAddressing ==
    AsBuilt =>
        \A n \in KvCacheNumels :
            \A c \in CacheReads(forward_attention(attn_metadata[1], n)) :
                IF attn_metadata[1].use_vmm
                THEN c[1].cache_batch_idx # None /\ c[1].block_table = None
                ELSE c[1].block_table # None /\ c[1].cache_batch_idx = None

\* a batch the scheduler forms: a prompt brings context along only after a
\* prefix-cache hit or under chunked prefill, and prompts share a batch with
\* decodes only under chunked prefill
Scheduled(ib) ==
    /\ \A k \in 1..Len(ib.inter_data_list) :
          LET g == ib.inter_data_list[k]
          IN (g.is_prompt /\ \E j \in 1..Len(g.context_lens) :
                                g.context_lens[j] > 0) =>
                (g.prefix_cache_hit \/ ib.chunked_prefill_enabled)
    /\ ~ib.chunked_prefill_enabled =>
          \A k, l \in 1..Len(ib.inter_data_list) :
              ib.inter_data_list[k].is_prompt = ib.inter_data_list[l].is_prompt

\* C22: for the prompts of a step, with a cache at hand, forward calls the
\* kernel on the new keys and values with no block table when every prompt
\* has query_len = seq_len and none hit the prefix cache, and calls it on the
\* cache with a block table or cache_batch_idx when a prompt has prior
\* context, in VMM and legacy mode, with chunked prefill enabled or not.
C22_PrefillKernel ==
    (AsBuilt /\ Scheduled(input_builder)
        /\ RequestsOf(input_builder, TRUE) # <<>>) =>
        LET prompts == RequestsOf(input_builder, TRUE)
            fresh == \A i \in 1..Len(prompts) :
                        prompts[i].query_len = prompts[i].seq_len
            hit == \E k \in 1..Len(input_builder.inter_data_list) :
                      input_builder.inter_data_list[k].prefix_cache_hit
            f == forward_attention(attn_metadata[1], 1)
        IN /\ f.prefill # None
           /\ (fresh /\ ~hit) =>
                 f.prefill[1] =
                     KernelCall("flash_attn_varlen_func", "key", None, None)
           /\ ~fresh =>
                 /\ f.prefill[1].k = "key_cache"
                 /\ \/ f.prefill[1].block_table # None
                    \/ f.prefill[1].cache_batch_idx # None

\* ------------------------------------------------------------------------
\* Properties of advance_step and the stored views
\* ------------------------------------------------------------------------
\* C23: advance_step drops the stored views before it changes the metadata:
\* after an advance_step that returned, a read of decode_metadata shows the
\* num_prefills, num_decode_tokens and max_decode_seq_len the parent has now,
\* not those of a view built before the call, and a read of prefill_metadata
\* shows a parent without prefills.
C23_ViewsInvalidated ==
    (HasMetadata /\ advanced >= 1) =>
        LET md == attn_metadata[1]
        IN /\ md._cached_prefill_metadata = None
           /\ md._cached_decode_metadata = None
           /\ PrefillRead.ret = None
           /\ DecodeRead.ret # None
           /\ DecodeRead.ret[1].num_prefills = md.num_prefills
           /\ DecodeRead.ret[1].num_decode_tokens = md.num_decode_tokens
           /\ DecodeRead.ret[1].max_decode_seq_len = md.max_decode_seq_len

\* ------------------------------------------------------------------------
\* Properties of the padding and of the addressing mode
\* ------------------------------------------------------------------------
\* C24: when build runs in legacy mode under graph capture with
\* cuda_graph_pad_size = p, the builder's slot_mapping has grown by p entries
\* PAD_SLOT_ID and is batch_size long, and the builder's block_tables has
\* grown by p empty rows and has one row for every padded sequence.
C24_GraphPadding ==
    (AsBuilt /\ ~input_builder.use_vmm
        /\ input_builder.cuda_graph_pad_size # -1) =>
        LET p == input_builder.cuda_graph_pad_size
            batch_size == Len(PaddedSeqLens(input_builder))
            n == Len(FlatSeqLens(input_builder))
        IN /\ Len(builder.slot_mapping) = batch_size
           /\ \A i \in 1..p :
                 builder.slot_mapping[batch_size - p + i] = PAD_SLOT_ID
           /\ Len(builder.block_tables) = n + p
           /\ \A i \in 1..p : builder.block_tables[n + i] = <<>>

\* the one addressing representation of a metadata, as C25 spells it out
OneAddressing(m) ==
    IF m.use_vmm
    THEN /\ m.block_tables = None
         /\ m.slot_mapping = None
         /\ m.cache_batch_idx # None
    ELSE /\ m.block_tables # None
         /\ m.cache_batch_idx = None
         /\ m.cache_cow_mapping = None
         /\ m.cache_col_mapping = None

\* C25: every metadata build returns, and each view derived from it, carries
\* one addressing representation: in VMM mode block_tables and slot_mapping
\* are None and cache_batch_idx is set; in legacy mode block_tables is set
\* and cache_batch_idx, cache_cow_mapping and cache_col_mapping are None.
C25_OneAddressing ==
    AsBuilt =>
        /\ OneAddressing(attn_metadata[1])
        /\ PrefillRead.ret # None => OneAddressing(PrefillRead.ret[1])
        /\ DecodeRead.ret # None => OneAddressing(DecodeRead.ret[1])

\* forward has read both views of a VMM batch of prompts and decodes
C25_Witness ==
    /\ phase = "forwarded"
    /\ advanced = 0
    /\ attn_metadata[1].use_vmm
    /\ attn_metadata[1]._cached_prefill_metadata # None
    /\ attn_metadata[1]._cached_decode_metadata # None
    /\ attn_metadata[1]._cached_prefill_metadata[1].cache_batch_idx # None
    /\ attn_metadata[1]._cached_decode_metadata[1].block_tables = None

\* ------------------------------------------------------------------------
\* Properties of the page size
\* ------------------------------------------------------------------------
\* C26: for every block_bytes_size that __init__ accepts, multiples of 2 MiB
\* or not, the page size set on the allocator is at least block_bytes_size
\* and is the block size the engine computes its offsets with, so that the
\* blocks mapped one after the other in a slot are contiguous and do not
\* overlap.
C26_PageSize ==
    pc = "sized" =>
        /\ page_size(cfg) >= cfg.block_bytes_size
        /\ page_size(cfg) = cfg.block_bytes_size
        /\ \A s \in Slots(cfg) :
              \A k \in 1..(allocated_block_counts[s] - 1) :
                  BlockBytes(cfg, s, k - 1).hi = BlockBytes(cfg, s, k).lo

\* ------------------------------------------------------------------------
\* Properties of advance_step calls that fail
\* ------------------------------------------------------------------------
\* C27: advance_step returns only on legacy metadata: on a metadata built in
\* VMM mode (slot_mapping and block_tables None) every call raises, with
\* turn_prefills_into_decodes or without, and no entry of seq_lens or of
\* seq_lens_tensor has been incremented.
C27_VmmNeverAdvances ==
    HasMetadata =>
        LET md == attn_metadata[1]
        IN \A a \in AdvanceCalls(md) :
              LET r == AdvanceCall(a)
              IN /\ ~r.raised => ~md.use_vmm
                 /\ md.use_vmm =>
                       /\ md.slot_mapping = None
                       /\ md.block_tables = None
                       /\ r.raised
                       /\ ~r.updated
                       /\ r.md.seq_lens = md.seq_lens
                       /\ r.md.seq_lens_tensor = md.seq_lens_tensor

\* an advance_step on the metadata of a VMM batch of decodes raised at the
\* first read of slot_mapping and left seq_lens alone
C27_Witness ==
    /\ phase = "raised"
    /\ attn_metadata[1].use_vmm
    /\ attn_metadata[1].num_decode_tokens >= 1
    /\ error \in {"AttributeError", "TypeError"}
    /\ attn_metadata[1].seq_lens = Some(PaddedSeqLens(input_builder))

\* the fields C28 names
NamedFields(md) ==
    <<md.num_prefills, md.num_prefill_tokens, md.num_decode_tokens,
      md.max_prefill_seq_len, md.max_query_len, md.slot_mapping, md.seq_lens,
      md.max_decode_seq_len>>

\* the call fails one of the assertions of lines 359-368, which stand before
\* the conversion
FailsBeforeConversion(md, a) ==
    \/ /\ a.num_seqs # a.num_queries
       /\ ~(a.num_seqs > a.num_queries /\ md.use_cuda_graph)
    \/ md.num_decode_tokens + md.num_prefills # a.num_seqs

\* C28 as stated: when advance_step fails one of its checks, num_prefills,
\* num_prefill_tokens, num_decode_tokens, max_prefill_seq_len, max_query_len,
\* slot_mapping, seq_lens and max_decode_seq_len are as before the call, with
\* turn_prefills_into_decodes and without.
C28_FailedAdvanceKeepsFields ==
    HasMetadata =>
        LET md == attn_metadata[1]
        IN \A a \in AdvanceCalls(md) :
              LET r == AdvanceCall(a)
              IN r.raised => NamedFields(r.md) = NamedFields(md)

\* C28 amended: when advance_step fails one of its checks, the named fields
\* are as before the call if turn_prefills_into_decodes is not set, or if it
\* is set and the failing check is one of those that precede the conversion.
C28_FailedAdvanceAmended ==
    HasMetadata =>
        LET md == attn_metadata[1]
        IN \A a \in AdvanceCalls(md) :
              LET r == AdvanceCall(a)
              IN (/\ r.raised
                  /\ \/ ~a.turn_prefills_into_decodes
                     \/ FailsBeforeConversion(md, a)) =>
                    NamedFields(r.md) = NamedFields(md)

\* an advance_step on the legacy metadata of a batch with a prompt of
\* several tokens failed an assertion, and the counters and slot_mapping are
\* those of the prompt batch
C28_Witness ==
    /\ phase = "raised"
    /\ advanced = 0
    /\ error = "AssertionError"
    /\ ~attn_metadata[1].use_vmm
    /\ attn_metadata[1].num_prefills >= 1
    /\ attn_metadata[1].num_prefill_tokens >= 2
    /\ attn_metadata[1].max_query_len >= 2
    /\ attn_metadata[1].max_prefill_seq_len >= 2
    /\ Len(attn_metadata[1].slot_mapping[1]) =
          attn_metadata[1].num_prefill_tokens
              + attn_metadata[1].num_decode_tokens

\* ------------------------------------------------------------------------
\* Properties of the engine: construction and calls over several slots
\* ------------------------------------------------------------------------
\* C29: right after __init__ has returned, allocated_block_counts[s] = 1 for
\* every slot s, and the pages mapped in the key reservation and in the
\* value reservation are the first page of every slot and no other.
C29_OnePagePerSlot ==
    (pc = "ready" /\ last.op = "init") =>
        LET first == UNION {SlotPages(cfg, s, 1) : s \in Slots(cfg)}
        IN /\ \A s \in Slots(cfg) : allocated_block_counts[s] = 1
           /\ key_cache_ptr.mapped = first
           /\ value_cache_ptr.mapped = first

\* an engine of two slots of several pages each has just been constructed
C29_Witness ==
    /\ pc = "ready"
    /\ last.op = "init"
    /\ cfg.max_num_seqs = 2
    /\ cache_space_page_num(cfg) >= 2
    /\ allocated_block_counts = [s \in Slots(cfg) |-> 1]

\* the dicts of two slots a caller may pass to alloc_seqs
PairRequests(c) ==
    {req \in {<<<<s1, n1>>, <<s2, n2>>>> :
                  s1 \in Slots(c), s2 \in Slots(c),
                  n1 \in 1..MaxBlocks, n2 \in 1..MaxBlocks} :
        req[1][1] # req[2][1]}

\* the pages of slot s mapped in the two reservations of engine e
MappedOf(c, e, s) ==
    <<e.key.mapped \cap SlotRange(c, s), e.value.mapped \cap SlotRange(c, s)>>

\* C30: alloc_seqs is not atomic over the entries of one call: when the
\* mapping fails for one slot of a call over several slots, the slots before
\* it keep the pages the call mapped for them and their raised counters, the
\* counter of the failing slot is unchanged, and the slots after it are not
\* touched.
C30_AllocNotAtomic ==
    pc = "ready" =>
        \A req \in PairRequests(cfg) :
        \A ooms \in OomChoices(Len(req), TRUE) :
            LET e == EngineNow
                r == alloc_seqs(cfg, e, req, ooms)
            IN r.raised =>
                  /\ r.at \in 1..Len(req)
                  /\ r.eng.abc[req[r.at][1]] = e.abc[req[r.at][1]]
                  /\ \A j \in 1..(r.at - 1) :
                        LET s == req[j][1]
                            n == Max(e.abc[s], req[j][2])
                            grown == SlotPages(cfg, s, n)
                                         \ SlotPages(cfg, s, e.abc[s])
                        IN /\ r.eng.abc[s] = n
                           /\ grown \subseteq r.eng.key.mapped
                           /\ grown \subseteq r.eng.value.mapped
                  /\ \A j \in (r.at + 1)..Len(req) :
                        LET s == req[j][1]
                        IN /\ r.eng.abc[s] = e.abc[s]
                           /\ MappedOf(cfg, r.eng, s) = MappedOf(cfg, e, s)
====
